---- MODULE Spec2Model ----
(***************************************************************************)
(* Model of the pvxs server spine (src/src/server.cpp): the lifecycle      *)
(* state machine of Server::Pvt, the Source registry, the UDP search       *)
(* responder and the beacon timer callback.                                *)
(*                                                                         *)
(* Threads of the program:                                                 *)
(*   - caller threads, which invoke start()/stop() and the registry API;   *)
(*   - the acceptor loop ("PVXTCP"), which runs the functors handed to     *)
(*     acceptor_loop.call() and the beacon timer callback one at a time;   *)
(*   - the UDPManager worker, which runs Pvt::onSearch.                    *)
(* A functor run by acceptor_loop.call() is one atomic action, since the   *)
(* loop is single threaded and call() is synchronous.  onSearch runs on    *)
(* another thread and is therefore split into the steps between which the  *)
(* acceptor loop can run.                                                  *)
(***************************************************************************)
EXTENDS Integers, Sequences, FiniteSets, TLC

----------------------------------------------------------------------------
(* Bounds of the model *)

\* number of entries of effective.interfaces (one ServIface and one
\* UDP listener each)
NumIfaces == 2

\* largest number of names carried by one Search message
MaxNames == 2

\* the most words an address list of the environment has
MaxWords == 2
MaxNest == 3
NumKeys == 2
MaxOver == 3
MaxElems == 2

----------------------------------------------------------------------------
(* Program constants *)

\* M.skip(8): room for the message header
HeaderLen == 8

Interfaces == 1..NumIfaces

\* caller threads using start()/stop()
Threads == {"t1", "t2"}

\* UDPManager workers running onSearch; the functions below are indexed by
\* worker, Spec runs a single one
UDPWorkers == {1}

\* beaconDest
BeaconDest == {"bcastA", "bcastB"}

\* state_t
States == {"Stopped", "Starting", "Running", "Stopping"}

\* the null shared_ptr<Source>
NULL == "NULL"

\* the ServerSource installed by the constructor and the Sources a caller
\* can hand to addSource
ServerSource == "ServerSource"
UserSources == {"srcA", "srcB"}

\* registry keys: std::pair<int, std::string>
Orders == {-1, 0}
SourceNames == {"pv", "server"}
Keys == Orders \X SourceNames
ServerKey == <<-1, "server">>

\* std::string operator< on the names used here
NameRank(n) == IF n = "pv" THEN 1 ELSE 2

\* std::pair operator<: order first, then name
KeyLess(a, b) ==
    \/ a[1] < b[1]
    \/ a[1] = b[1] /\ NameRank(a[2]) < NameRank(b[2])

\* the sequence a std::map iteration visits: the keys in ascending order
RECURSIVE SortedKeys(_)
SortedKeys(S) ==
    IF S = {} THEN << >>
    ELSE LET m == CHOOSE k \in S : \A o \in S \ {k} : KeyLess(k, o)
         IN  <<m>> \o SortedKeys(S \ {m})

----------------------------------------------------------------------------
(* Search messages: UDPManager::Search *)

\* the (id, name) pairs a Search may carry
SearchNames == { [id |-> 1, name |-> "xxx"], [id |-> 2, name |-> "yyy"],
                 [id |-> 3, name |-> "zzz"] }

RECURSIVE SeqsNoRep(_, _)
SeqsNoRep(S, n) ==
    IF n = 0 THEN { << >> }
    ELSE LET shorter == SeqsNoRep(S, n - 1)
         IN  shorter \cup
             { Append(s, x) : s \in { q \in shorter : Len(q) = n - 1 },
                              x \in S }

\* the name lists of a Search: no id appears twice
NameSeqs ==
    { s \in SeqsNoRep(SearchNames, MaxNames) :
        \A i \in 1..Len(s) : \A j \in 1..Len(s) : i /= j => s[i].id /= s[j].id }

SearchIDs == {7}

\* the Server this model follows, and another Server of the same process
Servers == {"this", "other"}

\* the Server a caller thread calls run() on
RunServer(t) == IF t = "t1" THEN "this" ELSE "other"

\* signal handlers: the one the process started with, and sig_handle
SIG_DFL == "SIG_DFL"
SigHandle == "sig_handle"

\* environment variables: getenv() returns null for one that is not set
UnsetList == [set |-> FALSE, val |-> << >>]
UnsetText == [set |-> FALSE, val |-> ""]
SetTo(v) == [set |-> TRUE, val |-> v]

\* words of an address list: two that aToIPAddr accepts and one it rejects
AddrWords == {"10.0.0.1", "localhost", "not-an-address"}

\* aToIPAddr(word, 0, &addr) returned 0
IsAddr(word) == word \in {"10.0.0.1", "localhost"}

\* ipAddrToDottedIP of the address aToIPAddr made of word
DottedIP(word) == IF word = "localhost" THEN "127.0.0.1" ELSE word

\* the address lists of at most n words
RECURSIVE AddrLists(_)
AddrLists(n) ==
    IF n = 0 THEN { << >> }
    ELSE AddrLists(n - 1) \cup
         { Append(l, w) : l \in { x \in AddrLists(n - 1) : Len(x) = n - 1 },
                          w \in AddrWords }

\* epicsStrCaseCmp(a, b) == 0, for the values used here
SameNoCase(a, b) ==
    LET Upper(x) == CASE x \in {"yes", "Yes", "yEs"} -> "YES"
                      [] x \in {"no", "No", "nO"} -> "NO"
                      [] OTHER -> x
    IN  Upper(a) = Upper(b)

\* lexical_cast<unsigned short>(text): the value, or -1 where it throws
PortOf(text) ==
    CASE text = "5099" -> 5099
      [] text = "65535" -> 65535
      [] OTHER -> -1

\* pickenv: the value of the first variable of names that is set, or
\* unset where none is
RECURSIVE PickEnv(_, _, _)
PickEnv(e, names, unset) ==
    IF names = << >> THEN unset
    ELSE IF e[Head(names)].set THEN e[Head(names)]
    ELSE PickEnv(e, Tail(names), unset)

ListNames == {"EPICS_PVAS_INTF_ADDR_LIST", "EPICS_PVAS_BEACON_ADDR_LIST",
              "EPICS_PVA_ADDR_LIST"}
TextNames == {"EPICS_PVAS_AUTO_BEACON_ADDR_LIST", "EPICS_PVA_AUTO_ADDR_LIST",
              "EPICS_PVAS_SERVER_PORT", "EPICS_PVA_SERVER_PORT",
              "EPICS_PVAS_BROADCAST_PORT", "EPICS_PVA_BROADCAST_PORT"}

\* the empty environment
NoEnv == [n \in ListNames \cup TextNames |->
             IF n \in ListNames THEN UnsetList ELSE UnsetText]

\* a default-constructed Config: "default" and -1 stand for the values
\* the member initialisers of Config give auto_beacon and the ports
NoConfig == [interfaces |-> << >>, beaconDestinations |-> << >>,
             auto_beacon |-> "default", tcp_port |-> -1, udp_port |-> -1]

NoMsg == [searchID |-> 0, mustReply |-> FALSE, names |-> << >>, lst |-> 0]

----------------------------------------------------------------------------
(* Wire helpers *)

\* to_wire(Header{cmd, flags, len}): len is a uint32; every length of the
\* model lies in 0 .. 2^31 - 1, where the conversion changes nothing
Header(cmd, len) == [cmd |-> cmd, flags |-> "Server", len |-> len]

\* a header area nothing was written to
ZeroHeader == [cmd |-> "zero", flags |-> "zero", len |-> 0]

\* the body areas of searchReply and beaconMsg before anything is written
ZeroSearchBody == [guid |-> "zero", searchID |-> 0, port |-> "zero",
                   proto |-> "zero", found |-> 0, nreply |-> 0]
ZeroBeaconBody == [guid |-> "zero", port |-> "zero", proto |-> "zero",
                   status |-> 0]

\* no reply handed to msg.reply() yet, no beacon handed to sendto() yet
NoReply == [sent |-> FALSE,
            dgram |-> [hdr |-> ZeroHeader, body |-> ZeroSearchBody,
                       ids |-> << >>]]
NoBeacon == [tx |-> FALSE, sent |-> {}, hdr |-> ZeroHeader,
             body |-> ZeroBeaconBody, len |-> 0]

\* bytes of a search reply before the ids: header, GUID, searchID,
\* address, port, "tcp" (Size + 3), found flag, nreply
SearchFixedLen == HeaderLen + 12 + 4 + 16 + 2 + 4 + 1 + 2

\* bytes of a beacon: header, GUID, 4 unused, address, port, "tcp", status
BeaconLen == HeaderLen + 12 + 4 + 16 + 2 + 4 + 1

----------------------------------------------------------------------------
VARIABLES
    state,        \* Pvt::state
    interfaces,   \* per ServIface: its evconnlistener is enabled
    listeners,    \* per UDPListener: it is started
    beaconTimer,  \* "off" (not pending), "immediate" (due at once),
                  \* "interval" (due after 15 s)
    tpc,          \* per caller thread: its position in start()/stop()
    tidx,         \* per caller thread: position in the loop over listeners
    sources,      \* Pvt::sources, a map from key to Source
    apiCall,      \* the last registry call and how it ended
    wpc,          \* per UDP worker: its position in onSearch
    wmsg,         \* per UDP worker: the Search being handled (msg)
    wit,          \* per UDP worker: 1 + the number of Sources invoked
    wnreply,      \* per UDP worker: the local nreply
    wpktlen,      \* per UDP worker: the local pktlen
    wclaimed,     \* per UDP worker: indices a Source claimed in this search
    wthrown,      \* per UDP worker: indices claimed only by Sources that threw
    wreply,       \* per UDP worker: the datagram handed to msg.reply()
    searchOp,     \* Pvt::searchOp._names
    searchReply,  \* Pvt::searchReply
    beaconMsg,    \* Pvt::beaconMsg
    lastBeacon,   \* the last beacon transmission
    sig_target,   \* the process-global slot sig_target
    sigINT,       \* the handler installed for SIGINT
    sigTERM,      \* the handler installed for SIGTERM
    done,         \* per Server: Pvt::done is signalled
    signalled,    \* per Server: done.signal() has been called
    rpc,          \* per caller thread: its position in run()
    cleanup,      \* per caller thread: run()'s cleanup functor is set
    prevINT,      \* per caller thread: run()'s captured prevINT
    prevTERM,     \* per caller thread: run()'s captured prevTERM
    env,          \* the environment variables Config::from_env reads
    epc,          \* position of the from_env call
    einp,         \* split_addr_into: the words from inp on
    eret,         \* from_env: the Config ret
    elog,         \* split_addr_into: parity of the number of lines logged
    tin,          \* codec: the type, value or stream handed to the codec
    wire,         \* codec: the bytes the encoder wrote
    tout,         \* codec: what the decoder left behind
    hist,         \* what the calls made so far have returned (codec
                  \* calls; the one start() and one stop() of SpecStartStop)
    cpc           \* codec: position of the codec's caller

vars == << state, interfaces, listeners, beaconTimer, tpc, tidx,
           sources, apiCall, wpc, wmsg, wit, wnreply, wpktlen, wclaimed,
           wthrown, wreply, searchOp, searchReply, beaconMsg, lastBeacon,
           sig_target, sigINT, sigTERM, done, signalled, rpc, cleanup,
           prevINT, prevTERM, env, epc, einp, eret, elog,
           tin, wire, tout, hist, cpc >>

lifeVars == << state, interfaces, listeners, beaconTimer >>
callerVars == << tpc, tidx >>
regVars == << sources, apiCall >>
workerVars == << wpc, wmsg, wit, wnreply, wpktlen, wclaimed, wthrown, wreply >>
bufVars == << searchOp, searchReply, beaconMsg, lastBeacon >>
sigVars == << sig_target, sigINT, sigTERM >>
runVars == << sigVars, done, signalled, rpc, cleanup, prevINT, prevTERM >>
envVars == << env, epc, einp, eret, elog >>
serverVars == << lifeVars, callerVars, regVars, workerVars, bufVars >>
codecVars == << tin, wire, tout, hist, cpc >>

----------------------------------------------------------------------------
(* Construction: Server::Pvt::Pvt *)

\* no codec call has been made
InitCodec ==
    /\ tin = << >>
    /\ wire = << >>
    /\ tout = << >>
    /\ hist = << >>
    /\ cpc = "idle"

\* no run() has been called: the slot is empty, the handlers are those
\* the process started with, no done event is signalled
InitRun ==
    /\ sig_target = NULL
    /\ sigINT = SIG_DFL
    /\ sigTERM = SIG_DFL
    /\ done = [s \in Servers |-> FALSE]
    /\ signalled = [s \in Servers |-> FALSE]
    /\ rpc = [t \in Threads |-> "idle"]
    /\ cleanup = [t \in Threads |-> FALSE]
    /\ prevINT = [t \in Threads |-> NULL]
    /\ prevTERM = [t \in Threads |-> NULL]

\* Config::from_env has not been called; e is the process environment
InitEnv(e) ==
    /\ env = e
    /\ epc = "idle"
    /\ einp = << >>
    /\ eret = NoConfig
    /\ elog = 0

InitPvt ==
    /\ state = "Stopped"
    /\ interfaces = [i \in Interfaces |-> FALSE]
    /\ listeners = [i \in Interfaces |-> FALSE]
    /\ beaconTimer = "off"
    /\ tpc = [t \in Threads |-> "idle"]
    /\ tidx = [t \in Threads |-> 0]
    /\ sources = [k \in {ServerKey} |-> ServerSource]
    /\ apiCall = [op |-> "none", err |-> "none", ret |-> NULL,
                  names |-> << >>]
    /\ wpc = [w \in UDPWorkers |-> "idle"]
    /\ wmsg = [w \in UDPWorkers |-> NoMsg]
    /\ wit = [w \in UDPWorkers |-> 0]
    /\ wnreply = [w \in UDPWorkers |-> 0]
    /\ wpktlen = [w \in UDPWorkers |-> 0]
    /\ wclaimed = [w \in UDPWorkers |-> {}]
    /\ wthrown = [w \in UDPWorkers |-> {}]
    /\ wreply = [w \in UDPWorkers |-> NoReply]
    /\ searchOp = << >>
    /\ searchReply = [hdr |-> ZeroHeader, body |-> ZeroSearchBody,
                      ids |-> << >>]
    /\ beaconMsg = [hdr |-> ZeroHeader, body |-> ZeroBeaconBody]
    /\ lastBeacon = NoBeacon

Init == InitPvt /\ InitRun /\ InitEnv(NoEnv) /\ InitCodec

----------------------------------------------------------------------------
(* Server::Pvt::start *)

\* a worker is inside onSearch for a Search received by listener i
Handling(w, i) == wpc[w] \notin {"idle", "done"} /\ wmsg[w].lst = i

\* UDPListener::stop() is a synchronous call on the UDP worker: it returns
\* once no callback of the listener is running
ListenerHalted(i) == \A w \in UDPWorkers : ~Handling(w, i)

\* the UDPManager hands a Search to the callback of a started listener only
Dispatchable(msg) == listeners[msg.lst]

\* start() without the test of state: the first functor always proceeds
StartBegin_NoGuard(t) ==
    /\ tpc[t] = "idle"
    /\ state' = "Starting"
    /\ interfaces' = [i \in Interfaces |-> TRUE]
    /\ tpc' = [tpc EXCEPT ![t] = "start_listeners"]
    /\ tidx' = [tidx EXCEPT ![t] = 1]
    /\ UNCHANGED << listeners, beaconTimer >>
    /\ UNCHANGED << regVars, workerVars, bufVars >>

\* first functor of start(), run by the acceptor loop, and the test of
\* prev_state that follows it
StartBegin(t) ==
    /\ tpc[t] = "idle"
    /\ IF state /= "Stopped"
       THEN UNCHANGED << lifeVars, tpc, tidx >>
       ELSE /\ state' = "Starting"
            /\ interfaces' = [i \in Interfaces |-> TRUE]
            /\ tpc' = [tpc EXCEPT ![t] = "start_listeners"]
            /\ tidx' = [tidx EXCEPT ![t] = 1]
            /\ UNCHANGED << listeners, beaconTimer >>
    /\ UNCHANGED << regVars, workerVars, bufVars >>

\* one iteration of: for(auto& L : listeners) L->start();
StartListener(t) ==
    /\ tpc[t] = "start_listeners"
    /\ listeners' = [listeners EXCEPT ![tidx[t]] = TRUE]
    /\ IF tidx[t] = NumIfaces
       THEN /\ tpc' = [tpc EXCEPT ![t] = "start_beacons"]
            /\ tidx' = [tidx EXCEPT ![t] = 0]
       ELSE /\ tidx' = [tidx EXCEPT ![t] = tidx[t] + 1]
            /\ UNCHANGED tpc
    /\ UNCHANGED << state, interfaces, beaconTimer >>
    /\ UNCHANGED << regVars, workerVars, bufVars >>

\* second functor of start(): event_add(beaconTimer, nullptr), then
\* state = Running.  The comment at the call reads "send first beacon
\* immediately".  What a null timeout does to an event that has no file
\* descriptor and no signal is the event library's: libevent adds no
\* timeout for it ("If a timeout is NULL, no timeout occurs"), which
\* leaves the event not pending; due says whether the library makes the
\* timer due as the comment expects.
StartBeacons(t, due) ==
    /\ tpc[t] = "start_beacons"
    /\ beaconTimer' = IF due THEN "immediate" ELSE "off"
    /\ state' = "Running"
    /\ tpc' = [tpc EXCEPT ![t] = "idle"]
    /\ UNCHANGED << interfaces, listeners, tidx >>
    /\ UNCHANGED << regVars, workerVars, bufVars >>

----------------------------------------------------------------------------
(* Server::Pvt::stop *)

\* stop() whose first functor forgets event_del
StopBegin_NoEventDel(t) ==
    /\ tpc[t] = "idle"
    /\ IF state /= "Running"
       THEN UNCHANGED << lifeVars, tpc, tidx >>
       ELSE /\ state' = "Stopping"
            /\ tpc' = [tpc EXCEPT ![t] = "stop_listeners"]
            /\ tidx' = [tidx EXCEPT ![t] = 1]
            /\ UNCHANGED << interfaces, listeners, beaconTimer >>
    /\ UNCHANGED << regVars, workerVars, bufVars >>

\* first functor of stop() and the test of prev_state that follows it
StopBegin(t) ==
    /\ tpc[t] = "idle"
    /\ IF state /= "Running"
       THEN UNCHANGED << lifeVars, tpc, tidx >>
       ELSE /\ state' = "Stopping"
            /\ beaconTimer' = "off"
            /\ tpc' = [tpc EXCEPT ![t] = "stop_listeners"]
            /\ tidx' = [tidx EXCEPT ![t] = 1]
            /\ UNCHANGED << interfaces, listeners >>
    /\ UNCHANGED << regVars, workerVars, bufVars >>

\* one iteration of: for(auto& L : listeners) L->stop();
StopListener(t) ==
    /\ tpc[t] = "stop_listeners"
    /\ ListenerHalted(tidx[t])
    /\ listeners' = [listeners EXCEPT ![tidx[t]] = FALSE]
    /\ IF tidx[t] = NumIfaces
       THEN /\ tpc' = [tpc EXCEPT ![t] = "stop_ifaces"]
            /\ tidx' = [tidx EXCEPT ![t] = 0]
       ELSE /\ tidx' = [tidx EXCEPT ![t] = tidx[t] + 1]
            /\ UNCHANGED tpc
    /\ UNCHANGED << state, interfaces, beaconTimer >>
    /\ UNCHANGED << regVars, workerVars, bufVars >>

\* stop() whose second functor forgets evconnlistener_disable
StopIfaces_NoDisable(t) ==
    /\ tpc[t] = "stop_ifaces"
    /\ state' = "Stopped"
    /\ tpc' = [tpc EXCEPT ![t] = "idle"]
    /\ UNCHANGED << interfaces, listeners, beaconTimer, tidx >>
    /\ UNCHANGED << regVars, workerVars, bufVars >>

\* second functor of stop(): disable every acceptor, state = Stopped
StopIfaces(t) ==
    /\ tpc[t] = "stop_ifaces"
    /\ interfaces' = [i \in Interfaces |-> FALSE]
    /\ state' = "Stopped"
    /\ tpc' = [tpc EXCEPT ![t] = "idle"]
    /\ UNCHANGED << listeners, beaconTimer, tidx >>
    /\ UNCHANGED << regVars, workerVars, bufVars >>

----------------------------------------------------------------------------
(* Server::Pvt::doBeacons, the beaconTimer callback on the acceptor loop *)

\* pktlen = M.save() - searchReply.data() subtracts pointers into two
\* different vectors (M writes beaconMsg): the result is whatever the
\* distance of the two allocations makes it.  Outcomes modelled: the
\* length of the composed beacon, and a distance that is not a length.
BeaconPktLens == { BeaconLen, BeaconLen + 2^16 }

\* what M writes into beaconMsg after M.skip(8)
BeaconBody == [guid |-> "guid", port |-> "tcp_port", proto |-> "tcp",
               status |-> 255]

\* sent: the destinations for which sendto() did not fail
DoBeacons(pktlen, sent) ==
    /\ beaconTimer /= "off"
    /\ beaconMsg' = [beaconMsg EXCEPT !.body = BeaconBody]
    /\ searchReply' = [searchReply EXCEPT
                          !.hdr = Header("CMD_BEACON", pktlen - HeaderLen)]
    /\ lastBeacon' = [tx |-> TRUE, sent |-> sent, hdr |-> beaconMsg'.hdr,
                      body |-> beaconMsg'.body, len |-> pktlen]
    /\ beaconTimer' = "interval"
    /\ UNCHANGED << state, interfaces, listeners, searchOp >>
    /\ UNCHANGED << callerVars, regVars, workerVars >>

----------------------------------------------------------------------------
(* The Source registry: Server::addSource, removeSource, getSource,        *)
(* listSource.  sourcesLock is a reader-writer lock: onSearch holds it as  *)
(* a reader while it iterates over sources.                                *)

ReaderHeld == \E w \in UDPWorkers : wpc[w] = "sources"

\* pvt->sources[key]: std::map::operator[] inserts a null entry for a key
\* that is absent
Subscript(m, key) ==
    IF key \in DOMAIN m THEN m ELSE [k \in DOMAIN m \cup {key} |->
                                        IF k = key THEN NULL ELSE m[k]]

Erase(m, key) == [k \in DOMAIN m \ {key} |-> m[k]]

\* addSource that assigns the entry without testing it
AddSource_Overwrite(name, src, order) ==
    LET key == <<order, name>>
        m   == Subscript(sources, key)
    IN  /\ IF src = NULL
           THEN /\ apiCall' = [op |-> "addSource", err |-> "logic_error",
                               ret |-> NULL, names |-> << >>]
                /\ UNCHANGED sources
           ELSE /\ ~ReaderHeld
                /\ apiCall' = [op |-> "addSource", err |-> "none",
                               ret |-> NULL, names |-> << >>]
                /\ sources' = [m EXCEPT ![key] = src]
        /\ UNCHANGED << lifeVars, callerVars, workerVars, bufVars >>

AddSource(name, src, order) ==
    LET key == <<order, name>>
        m   == Subscript(sources, key)
    IN  /\ IF src = NULL
           THEN \* thrown before the lock is taken
                /\ apiCall' = [op |-> "addSource", err |-> "logic_error",
                               ret |-> NULL, names |-> << >>]
                /\ UNCHANGED sources
           ELSE /\ ~ReaderHeld
                /\ IF m[key] /= NULL
                   THEN /\ apiCall' = [op |-> "addSource",
                                       err |-> "runtime_error",
                                       ret |-> NULL, names |-> << >>]
                        /\ sources' = m
                   ELSE /\ apiCall' = [op |-> "addSource", err |-> "none",
                                       ret |-> NULL, names |-> << >>]
                        /\ sources' = [m EXCEPT ![key] = src]
        /\ UNCHANGED << lifeVars, callerVars, workerVars, bufVars >>

\* removeSource that erases sources.begin() instead of the entry found
RemoveSource_First(name, order) ==
    LET key == <<order, name>>
    IN  /\ ~ReaderHeld
        /\ IF key \in DOMAIN sources
           THEN /\ apiCall' = [op |-> "removeSource", err |-> "none",
                               ret |-> sources[key], names |-> << >>]
                /\ sources' = Erase(sources, SortedKeys(DOMAIN sources)[1])
           ELSE /\ apiCall' = [op |-> "removeSource", err |-> "none",
                               ret |-> NULL, names |-> << >>]
                /\ UNCHANGED sources
        /\ UNCHANGED << lifeVars, callerVars, workerVars, bufVars >>

RemoveSource(name, order) ==
    LET key == <<order, name>>
    IN  /\ ~ReaderHeld
        /\ IF key \in DOMAIN sources
           THEN /\ apiCall' = [op |-> "removeSource", err |-> "none",
                               ret |-> sources[key], names |-> << >>]
                /\ sources' = Erase(sources, key)
           ELSE /\ apiCall' = [op |-> "removeSource", err |-> "none",
                               ret |-> NULL, names |-> << >>]
                /\ UNCHANGED sources
        /\ UNCHANGED << lifeVars, callerVars, workerVars, bufVars >>

GetSource(name, order) ==
    LET key == <<order, name>>
    IN  /\ apiCall' = [op |-> "getSource", err |-> "none",
                       ret |-> IF key \in DOMAIN sources
                               THEN sources[key] ELSE NULL,
                       names |-> << >>]
        /\ UNCHANGED sources
        /\ UNCHANGED << lifeVars, callerVars, workerVars, bufVars >>

\* names.emplace_back(pair.first.second, pair.first.first) in map order
ListSource ==
    LET keys == SortedKeys(DOMAIN sources)
    IN  /\ apiCall' = [op |-> "listSource", err |-> "none", ret |-> NULL,
                       names |-> [i \in 1..Len(keys) |->
                                     <<keys[i][2], keys[i][1]>>]]
        /\ UNCHANGED sources
        /\ UNCHANGED << lifeVars, callerVars, workerVars, bufVars >>

----------------------------------------------------------------------------
(* Server::Pvt::onSearch, on a UDPManager worker *)

\* onSearch that resizes searchOp._names without resetting the claims
OnSearchBegin_KeepClaims(w, msg) ==
    /\ wpc[w] \in {"idle", "done"}
    /\ Dispatchable(msg)
    /\ wmsg' = [wmsg EXCEPT ![w] = msg]
    /\ searchOp' = [i \in 1..Len(msg.names) |->
                       [name |-> msg.names[i].name,
                        claim |-> i <= Len(searchOp) /\ searchOp[i].claim]]
    /\ wpc' = [wpc EXCEPT ![w] = IF DOMAIN sources = {} THEN "count"
                                 ELSE "sources"]
    /\ wit' = [wit EXCEPT ![w] = 1]
    /\ wnreply' = [wnreply EXCEPT ![w] = 0]
    /\ wpktlen' = [wpktlen EXCEPT ![w] = 0]
    /\ wclaimed' = [wclaimed EXCEPT ![w] = {}]
    /\ wthrown' = [wthrown EXCEPT ![w] = {}]
    /\ wreply' = [wreply EXCEPT ![w] = NoReply]
    /\ UNCHANGED << searchReply, beaconMsg, lastBeacon >>
    /\ UNCHANGED << lifeVars, callerVars, regVars >>

\* the Search is handed to the callback of a started listener; then
\* searchOp._names is resized and every claim reset (lines 548-552), and
\* the reader lock is taken (line 555)
OnSearchBegin(w, msg) ==
    /\ wpc[w] \in {"idle", "done"}
    /\ Dispatchable(msg)
    /\ wmsg' = [wmsg EXCEPT ![w] = msg]
    /\ searchOp' = [i \in 1..Len(msg.names) |->
                       [name |-> msg.names[i].name, claim |-> FALSE]]
    /\ wpc' = [wpc EXCEPT ![w] = IF DOMAIN sources = {} THEN "count"
                                 ELSE "sources"]
    /\ wit' = [wit EXCEPT ![w] = 1]
    /\ wnreply' = [wnreply EXCEPT ![w] = 0]
    /\ wpktlen' = [wpktlen EXCEPT ![w] = 0]
    /\ wclaimed' = [wclaimed EXCEPT ![w] = {}]
    /\ wthrown' = [wthrown EXCEPT ![w] = {}]
    /\ wreply' = [wreply EXCEPT ![w] = NoReply]
    /\ UNCHANGED << searchReply, beaconMsg, lastBeacon >>
    /\ UNCHANGED << lifeVars, callerVars, regVars >>

\* onSearch with the try block around the whole loop: a throw ends it
OnSearchSource_ThrowBreaks(w, claims, throws) ==
    LET keys == SortedKeys(DOMAIN sources)
    IN  /\ wpc[w] = "sources"
        /\ claims \subseteq 1..Len(searchOp)
        /\ searchOp' = [i \in 1..Len(searchOp) |->
                           IF i \in claims
                           THEN [searchOp[i] EXCEPT !.claim = TRUE]
                           ELSE searchOp[i]]
        /\ wclaimed' = [wclaimed EXCEPT ![w] = @ \cup claims]
        /\ wthrown' = [wthrown EXCEPT ![w] =
                          IF throws THEN @ \cup (claims \ wclaimed[w])
                          ELSE @ \ claims]
        /\ wit' = [wit EXCEPT ![w] = wit[w] + 1]
        /\ wpc' = [wpc EXCEPT ![w] = IF wit[w] >= Len(keys) \/ throws
                                     THEN "count"
                                     ELSE "sources"]
        /\ UNCHANGED << wmsg, wnreply, wpktlen, wreply >>
        /\ UNCHANGED << searchReply, beaconMsg, lastBeacon >>
        /\ UNCHANGED << lifeVars, callerVars, regVars >>

\* one iteration of the loop over sources (lines 556-563): the Source
\* claims the names with the indices in claims and then returns, or
\* throws a std::exception, which is caught and logged
OnSearchSource(w, claims, throws) ==
    LET keys == SortedKeys(DOMAIN sources)
    IN  /\ wpc[w] = "sources"
        /\ claims \subseteq 1..Len(searchOp)
        /\ searchOp' = [i \in 1..Len(searchOp) |->
                           IF i \in claims
                           THEN [searchOp[i] EXCEPT !.claim = TRUE]
                           ELSE searchOp[i]]
        /\ wclaimed' = [wclaimed EXCEPT ![w] = @ \cup claims]
        /\ wthrown' = [wthrown EXCEPT ![w] =
                          IF throws THEN @ \cup (claims \ wclaimed[w])
                          ELSE @ \ claims]
        /\ wit' = [wit EXCEPT ![w] = wit[w] + 1]
        /\ wpc' = [wpc EXCEPT ![w] = IF wit[w] >= Len(keys) THEN "count"
                                     ELSE "sources"]
        /\ UNCHANGED << wmsg, wnreply, wpktlen, wreply >>
        /\ UNCHANGED << searchReply, beaconMsg, lastBeacon >>
        /\ UNCHANGED << lifeVars, callerVars, regVars >>

\* the number of claimed entries of searchOp._names, as a uint16_t
CountClaims(op) == Cardinality({ i \in 1..Len(op) : op[i].claim }) % (2^16)

\* onSearch that returns whenever nothing was claimed
OnSearchCount_IgnoreMustReply(w) ==
    LET nreply == CountClaims(searchOp)
    IN  /\ wpc[w] = "count"
        /\ wnreply' = [wnreply EXCEPT ![w] = nreply]
        /\ wpc' = [wpc EXCEPT ![w] = IF nreply = 0 THEN "done" ELSE "fill"]
        /\ UNCHANGED << wmsg, wit, wpktlen, wclaimed, wthrown, wreply >>
        /\ UNCHANGED << searchOp, searchReply, beaconMsg, lastBeacon >>
        /\ UNCHANGED << lifeVars, callerVars, regVars >>

\* lines 566-574: count the claims; no reply when there is none and the
\* Search does not ask for one
OnSearchCount(w) ==
    LET nreply == CountClaims(searchOp)
    IN  /\ wpc[w] = "count"
        /\ wnreply' = [wnreply EXCEPT ![w] = nreply]
        /\ wpc' = [wpc EXCEPT ![w] =
                      IF nreply = 0 /\ ~wmsg[w].mustReply THEN "done"
                      ELSE "fill"]
        /\ UNCHANGED << wmsg, wit, wpktlen, wclaimed, wthrown, wreply >>
        /\ UNCHANGED << searchOp, searchReply, beaconMsg, lastBeacon >>
        /\ UNCHANGED << lifeVars, callerVars, regVars >>

\* the ids of the names whose entry of op is claimed, in the order of names
RECURSIVE ClaimedIds(_, _, _)
ClaimedIds(names, op, i) ==
    IF i > Len(names) THEN << >>
    ELSE (IF op[i].claim THEN << names[i].id >> ELSE << >>)
         \o ClaimedIds(names, op, i + 1)

\* writing seq new over the start of what the buffer held
Overwrite(old, new) ==
    IF Len(new) >= Len(old) THEN new
    ELSE new \o SubSeq(old, Len(new) + 1, Len(old))

\* lines 576-593: the body of the reply is written into searchReply
\* behind the room for the header
OnSearchFill(w) ==
    LET ids == ClaimedIds(wmsg[w].names, searchOp, 1)
    IN  /\ wpc[w] = "fill"
        /\ searchReply' =
             [searchReply EXCEPT
                !.body = [guid |-> "guid", searchID |-> wmsg[w].searchID,
                          port |-> "tcp_port", proto |-> "tcp",
                          found |-> IF wnreply[w] /= 0 THEN 1 ELSE 0,
                          nreply |-> wnreply[w]],
                !.ids = Overwrite(@, ids)]
        /\ wpktlen' = [wpktlen EXCEPT ![w] = SearchFixedLen + 4 * Len(ids)]
        /\ wpc' = [wpc EXCEPT ![w] = "header"]
        /\ UNCHANGED << wmsg, wit, wnreply, wclaimed, wthrown, wreply >>
        /\ UNCHANGED << searchOp, beaconMsg, lastBeacon >>
        /\ UNCHANGED << lifeVars, callerVars, regVars >>

\* lines 595-597: the header is written at the start of searchReply
OnSearchHeader(w) ==
    /\ wpc[w] = "header"
    /\ searchReply' = [searchReply EXCEPT
                          !.hdr = Header("CMD_SEARCH_RESPONSE",
                                         wpktlen[w] - HeaderLen)]
    /\ wpc' = [wpc EXCEPT ![w] = "reply"]
    /\ UNCHANGED << wmsg, wit, wnreply, wpktlen, wclaimed, wthrown, wreply >>
    /\ UNCHANGED << searchOp, beaconMsg, lastBeacon >>
    /\ UNCHANGED << lifeVars, callerVars, regVars >>

\* the first pktlen bytes of searchReply
Datagram(buf, pktlen) ==
    [hdr |-> buf.hdr, body |-> buf.body,
     ids |-> SubSeq(buf.ids, 1, (pktlen - SearchFixedLen) \div 4)]

\* lines 599-603: both buffers are good, so msg.reply() sends the first
\* pktlen bytes of searchReply
OnSearchReply(w) ==
    /\ wpc[w] = "reply"
    /\ wreply' = [wreply EXCEPT ![w] =
                     [sent |-> TRUE,
                      dgram |-> Datagram(searchReply, wpktlen[w])]]
    /\ wpc' = [wpc EXCEPT ![w] = "done"]
    /\ UNCHANGED << wmsg, wit, wnreply, wpktlen, wclaimed, wthrown >>
    /\ UNCHANGED << searchOp, searchReply, beaconMsg, lastBeacon >>
    /\ UNCHANGED << lifeVars, callerVars, regVars >>

----------------------------------------------------------------------------
(* Server::run, Server::interrupt and sig_handle.  Thread t calls run()  *)
(* on RunServer(t).  pvt->start() and pvt->stop() of the Server followed  *)
(* here are the actions above; those of the other Server act on its own   *)
(* Pvt, which nothing here reads.  Pvt::done is an epicsEvent: signal()   *)
(* sets it, wait() blocks until it is set and clears it.                  *)

LifeFrame == UNCHANGED << lifeVars, callerVars >>
RestFrame == UNCHANGED << regVars, workerVars, bufVars >>

Returned(t) ==
    /\ rpc' = [rpc EXCEPT ![t] = "idle"]
    /\ cleanup' = [cleanup EXCEPT ![t] = FALSE]
    /\ prevINT' = [prevINT EXCEPT ![t] = NULL]
    /\ prevTERM' = [prevTERM EXCEPT ![t] = NULL]

\* sig_target.compare_exchange_weak(expect, pvt.get()) with expect null:
\* the weak form may fail although the slot holds the expected value
RunClaim(t, spurious) ==
    /\ rpc[t] = "idle" /\ tpc[t] = "idle"
    /\ IF sig_target = NULL /\ ~spurious
       THEN /\ sig_target' = RunServer(t)
            /\ rpc' = [rpc EXCEPT ![t] = "install_int"]
       ELSE /\ rpc' = [rpc EXCEPT ![t] = "start"]
            /\ UNCHANGED sig_target
    /\ UNCHANGED << sigINT, sigTERM, done, signalled, cleanup, prevINT,
                    prevTERM >>
    /\ LifeFrame /\ RestFrame

\* prevINT = signal(SIGINT, &sig_handle)
RunInstallINT(t) ==
    /\ rpc[t] = "install_int"
    /\ prevINT' = [prevINT EXCEPT ![t] = sigINT]
    /\ sigINT' = SigHandle
    /\ rpc' = [rpc EXCEPT ![t] = "install_term"]
    /\ UNCHANGED << sig_target, sigTERM, done, signalled, cleanup, prevTERM >>
    /\ LifeFrame /\ RestFrame

\* prevTERM = signal(SIGTERM, &sig_handle); cleanup = [...]
RunInstallTERM(t) ==
    /\ rpc[t] = "install_term"
    /\ prevTERM' = [prevTERM EXCEPT ![t] = sigTERM]
    /\ sigTERM' = SigHandle
    /\ cleanup' = [cleanup EXCEPT ![t] = TRUE]
    /\ rpc' = [rpc EXCEPT ![t] = "start"]
    /\ UNCHANGED << sig_target, sigINT, done, signalled, prevINT >>
    /\ LifeFrame /\ RestFrame

\* pvt->start(): its first functor; the steps after it are StartListener
\* and StartBeacons
RunStart(t) ==
    /\ rpc[t] = "start"
    /\ rpc' = [rpc EXCEPT ![t] = "wait"]
    /\ IF RunServer(t) = "this" THEN StartBegin(t) ELSE LifeFrame /\ RestFrame
    /\ UNCHANGED << sigVars, done, signalled, cleanup, prevINT, prevTERM >>

\* run() that does not wait for done
RunWait_NoWait(t) ==
    /\ rpc[t] = "wait" /\ tpc[t] = "idle"
    /\ done' = [done EXCEPT ![RunServer(t)] = FALSE]
    /\ rpc' = [rpc EXCEPT ![t] = "stop"]
    /\ UNCHANGED << sigVars, signalled, cleanup, prevINT, prevTERM >>
    /\ LifeFrame /\ RestFrame

\* pvt->done.wait(), once pvt->start() has returned
RunWait(t) ==
    /\ rpc[t] = "wait" /\ tpc[t] = "idle"
    /\ done[RunServer(t)]
    /\ done' = [done EXCEPT ![RunServer(t)] = FALSE]
    /\ rpc' = [rpc EXCEPT ![t] = "stop"]
    /\ UNCHANGED << sigVars, signalled, cleanup, prevINT, prevTERM >>
    /\ LifeFrame /\ RestFrame

\* pvt->stop(): its first functor; the steps after it are StopListener
\* and StopIfaces
RunStop(t) ==
    /\ rpc[t] = "stop"
    /\ rpc' = [rpc EXCEPT ![t] = "cleanup"]
    /\ IF RunServer(t) = "this" THEN StopBegin(t) ELSE LifeFrame /\ RestFrame
    /\ UNCHANGED << sigVars, done, signalled, cleanup, prevINT, prevTERM >>

\* if(cleanup) cleanup(), once pvt->stop() has returned: the functor's
\* compare_exchange_weak(expect, nullptr) with expect this Server; run()
\* returns unless the exchange stored
RunCleanup(t, spurious) ==
    /\ rpc[t] = "cleanup" /\ tpc[t] = "idle"
    /\ IF cleanup[t] /\ sig_target = RunServer(t) /\ ~spurious
       THEN /\ sig_target' = NULL
            /\ rpc' = [rpc EXCEPT ![t] = "restore_int"]
            /\ UNCHANGED << cleanup, prevINT, prevTERM >>
       ELSE /\ Returned(t)
            /\ UNCHANGED sig_target
    /\ UNCHANGED << sigINT, sigTERM, done, signalled >>
    /\ LifeFrame /\ RestFrame

\* signal(SIGINT, prevINT)
RunRestoreINT(t) ==
    /\ rpc[t] = "restore_int"
    /\ sigINT' = prevINT[t]
    /\ rpc' = [rpc EXCEPT ![t] = "restore_term"]
    /\ UNCHANGED << sig_target, sigTERM, done, signalled, cleanup, prevINT,
                    prevTERM >>
    /\ LifeFrame /\ RestFrame

\* signal(SIGTERM, prevTERM); return *this
RunRestoreTERM(t) ==
    /\ rpc[t] = "restore_term"
    /\ sigTERM' = prevTERM[t]
    /\ Returned(t)
    /\ UNCHANGED << sig_target, sigINT, done, signalled >>
    /\ LifeFrame /\ RestFrame

\* Server::interrupt() on Server s
Interrupt(s) ==
    /\ done' = [done EXCEPT ![s] = TRUE]
    /\ signalled' = [signalled EXCEPT ![s] = TRUE]
    /\ UNCHANGED << sigVars, rpc, cleanup, prevINT, prevTERM >>
    /\ LifeFrame /\ RestFrame

\* SIGINT or SIGTERM is delivered while its handler is sig_handle
SigDelivered(sig) ==
    /\ IF sig = "SIGINT" THEN sigINT = SigHandle ELSE sigTERM = SigHandle
    /\ IF sig_target /= NULL
       THEN /\ done' = [done EXCEPT ![sig_target] = TRUE]
            /\ signalled' = [signalled EXCEPT ![sig_target] = TRUE]
       ELSE UNCHANGED << done, signalled >>
    /\ UNCHANGED << sigVars, rpc, cleanup, prevINT, prevTERM >>
    /\ LifeFrame /\ RestFrame

----------------------------------------------------------------------------
(* Config::from_env and split_addr_into.  An address list is followed    *)
(* word by word: einp holds the words from the pointer inp on.            *)

EnvFrame == UNCHANGED << serverVars, runVars, codecVars >>

\* Config ret; ret.udp_port = 5076; pickenv for the interface list
FromEnvBegin ==
    /\ epc = "idle"
    /\ eret' = [NoConfig EXCEPT !.udp_port = 5076]
    /\ einp' = PickEnv(env, << "EPICS_PVAS_INTF_ADDR_LIST" >>, UnsetList).val
    /\ epc' = "interfaces"
    /\ UNCHANGED << env, elog >>
    /\ EnvFrame

\* one test of the loop condition of split_addr_into and, where it holds,
\* one pass through its body: M[1] is the first word at inp, M[2] the
\* rest.  A word aToIPAddr rejects is logged (the log is unbounded, elog
\* keeps the parity of its length) and the loop continues with inp as it
\* was.  When the loop ends from_env picks the next variable.
SplitAddrInto(member, next, nextNames) ==
    /\ epc = member
    /\ IF einp = << >>
       THEN /\ epc' = next
            /\ einp' = PickEnv(env, nextNames, UnsetList).val
            /\ UNCHANGED << eret, elog >>
       ELSE IF ~IsAddr(Head(einp))
       THEN /\ elog' = 1 - elog
            /\ UNCHANGED << epc, einp, eret >>
       ELSE /\ eret' = [eret EXCEPT
                          ![member] = Append(@, DottedIP(Head(einp)))]
            /\ einp' = Tail(einp)
            /\ UNCHANGED << epc, elog >>
    /\ UNCHANGED env
    /\ EnvFrame

\* the three scalar variables (lines 93-117) and return ret
FromEnvScalars ==
    LET auto == PickEnv(env, << "EPICS_PVAS_AUTO_BEACON_ADDR_LIST",
                                "EPICS_PVA_AUTO_ADDR_LIST" >>, UnsetText)
        tcp  == PickEnv(env, << "EPICS_PVAS_SERVER_PORT",
                                "EPICS_PVA_SERVER_PORT" >>, UnsetText)
        udp  == PickEnv(env, << "EPICS_PVAS_BROADCAST_PORT",
                                "EPICS_PVA_BROADCAST_PORT" >>, UnsetText)
    IN  /\ epc = "scalars"
        /\ eret' = [eret EXCEPT
              !.auto_beacon =
                  IF auto.set /\ SameNoCase(auto.val, "YES") THEN "true"
                  ELSE IF auto.set /\ SameNoCase(auto.val, "NO") THEN "false"
                  ELSE @,
              !.tcp_port =
                  IF tcp.set /\ PortOf(tcp.val) /= -1 THEN PortOf(tcp.val)
                  ELSE @,
              !.udp_port =
                  IF udp.set /\ PortOf(udp.val) /= -1 THEN PortOf(udp.val)
                  ELSE @]
        /\ epc' = "done"
        /\ UNCHANGED << env, einp, elog >>
        /\ EnvFrame

----------------------------------------------------------------------------
(* The type codec of dataencode.cpp.  A FieldDesc array is a sequence of  *)
(* nodes; the node the code calls descs[i] is descs[i + 1] here.  Strings *)
(* are sequences of bytes, a dotted member path is the sequence of its    *)
(* names.  FieldDesc::hash is left out: no statement below reads it.      *)

TypeCode ==
    [Bool |-> 0, Int8 |-> 32, Int16 |-> 33, Int32 |-> 34, Int64 |-> 35,
     UInt8 |-> 36, UInt16 |-> 37, UInt32 |-> 38, UInt64 |-> 39,
     Float32 |-> 66, Float64 |-> 67, String |-> 96,
     Struct |-> 128, Union |-> 129, Any |-> 130,
     BoolA |-> 8, Int8A |-> 40, Int16A |-> 41, Int32A |-> 42,
     UInt8A |-> 44, UInt16A |-> 45, UInt32A |-> 46, StringA |-> 104,
     StructA |-> 136, UnionA |-> 137, AnyA |-> 138,
     CacheDefine |-> 253, CacheRef |-> 254, Null |-> 255]

\* TypeCode::scalarOf(): the code without the array bit 0x08
ScalarOf(code) == IF (code \div 8) % 2 = 1 THEN code - 8 ELSE code

\* code & 0x10
FixedBit(code) == (code \div 16) % 2 = 1

\* Buffer: the bytes, the position of the next byte, the sticky fault flag
NewBuf(bytes) == [bytes |-> bytes, pos |-> 1, good |-> TRUE]
Fault(b) == [b EXCEPT !.good = FALSE]

\* from_wire of one byte; a faulted or exhausted buffer leaves the
\* destination as it was (dflt) and is faulted
GetU8(b, dflt) ==
    IF b.good /\ b.pos <= Len(b.bytes)
    THEN [buf |-> [b EXCEPT !.pos = @ + 1], val |-> b.bytes[b.pos]]
    ELSE [buf |-> Fault(b), val |-> dflt]

\* from_wire of a uint16_t
GetU16(b) ==
    IF b.good /\ b.pos + 1 <= Len(b.bytes)
    THEN [buf |-> [b EXCEPT !.pos = @ + 2],
          val |-> b.bytes[b.pos] + 256 * b.bytes[b.pos + 1]]
    ELSE [buf |-> Fault(b), val |-> 0]

\* from_wire of a Size: one byte below 254, 0xFF for size_t(-1)
GetSize(b) ==
    LET r == GetU8(b, 0)
    IN  IF ~r.buf.good THEN r
        ELSE IF r.val = 255 THEN [buf |-> r.buf, val |-> -1]
        ELSE IF r.val = 254 THEN [buf |-> Fault(r.buf), val |-> 0]
        ELSE r

\* from_wire of a string: a Size, then that many bytes
GetString(b) ==
    LET n == GetSize(b)
    IN  IF ~n.buf.good \/ n.val < 0 THEN [buf |-> n.buf, val |-> << >>]
        ELSE IF n.buf.pos + n.val - 1 > Len(n.buf.bytes)
             THEN [buf |-> Fault(n.buf), val |-> << >>]
             ELSE [buf |-> [n.buf EXCEPT !.pos = @ + n.val],
                   val |-> SubSeq(n.buf.bytes, n.buf.pos,
                                  n.buf.pos + n.val - 1)]

\* to_wire of a uint16_t, of a Size below 254 and of a string
PutU16(n) == << n % 256, n \div 256 >>
PutSize(n) == IF n < 0 THEN << 255 >> ELSE << n >>
PutString(str) == PutSize(Len(str)) \o str

\* std::map as a function, operator[] assignment
EmptyMap == [x \in {} |-> 0]
MapPut(m, k, v) == [x \in DOMAIN m \cup {k} |-> IF x = k THEN v ELSE m[x]]

\* a FieldDesc that emplace_back() has made, with code assigned
NewField(code) ==
    [code |-> code, id |-> << >>, miter |-> << >>, mlookup |-> EmptyMap,
     num_index |-> 0]

\* to_wire(Buffer&, const FieldDesc*): the bytes written for the node at
\* index cur of descs
RECURSIVE ToWire(_, _)
RECURSIVE ToWireMembers(_, _, _)
ToWireMembers(descs, cur, i) ==
    LET fld == descs[cur + 1]
    IN  IF i > Len(fld.miter) THEN << >>
        ELSE PutString(fld.miter[i][1])
             \o ToWire(descs, cur + fld.miter[i][2])
             \o ToWireMembers(descs, cur, i + 1)

ToWire(descs, cur) ==
    LET fld == descs[cur + 1]
    IN  << fld.code >> \o
        (CASE fld.code \in {TypeCode.StructA, TypeCode.UnionA} ->
                ToWire(descs, cur + 1)
           [] fld.code \in {TypeCode.Struct, TypeCode.Union} ->
                PutString(fld.id) \o PutSize(Len(fld.miter))
                \o ToWireMembers(descs, cur, 1)
           [] OTHER -> << >>)

\* the nesting limit of from_wire
MaxTypeDepth == 20

\* "depth > 20"
TooDeep_NoLimit(depth) == FALSE
TooDeep(depth) == depth > MaxTypeDepth

\* TypeDeserContext and the buffer it reads: descs, cache, and oob, the
\* code found one node past the end of descs (line 128 reads
\* descs[index + 1] when the element type appended nothing)
NewContext(bytes, cache, oob) ==
    [buf |-> NewBuf(bytes), descs |-> << >>, cache |-> cache, oob |-> oob]

CtxFault(st) == [st EXCEPT !.buf = Fault(st.buf)]

\* what a decode call leaves to its caller
Result(st) == [buf |-> st.buf, descs |-> st.descs, cache |-> st.cache]

\* Cache-Ref: append the cached nodes at index
FromWireRef_NoFault(st, b) ==
    LET index == Len(st.descs)
        key == GetU16(b)
        s0 == [st EXCEPT !.buf = key.buf]
    IN  IF key.val \notin DOMAIN s0.cache THEN s0
        ELSE [s0 EXCEPT !.descs = SubSeq(@, 1, index) \o s0.cache[key.val]]
FromWireRef(st, b) ==
    LET index == Len(st.descs)
        key == GetU16(b)
        s0 == [st EXCEPT !.buf = key.buf]
        s1 == IF key.val \in DOMAIN s0.cache THEN s0 ELSE CtxFault(s0)
    IN  IF ~s1.buf.good \/ s1.cache[key.val] = << >>
        THEN CtxFault(s1)
        ELSE [s1 EXCEPT !.descs = SubSeq(@, 1, index) \o s1.cache[key.val]]

\* the copy of cfld.mlookup into fld.mlookup, line 173-175
FlattenInto(m, name, cm, index, cindex) ==
    [p \in DOMAIN m \cup { << name >> \o q : q \in DOMAIN cm } |->
        IF Len(p) > 1 /\ p[1] = name /\ Tail(p) \in DOMAIN cm
        THEN cindex + cm[Tail(p)] ELSE m[p]]

\* from_wire(Buffer&, TypeDeserContext&, unsigned depth).  The calls
\* from_wire makes on itself are kept on an explicit call stack: m.st is
\* the context, m.depth the depth argument of the call that is running,
\* m.ret tells that this call has returned, and m.stack holds one frame
\* for every from_wire waiting for a nested call, innermost first.  A
\* frame has the locals the caller goes on with: where it waits ("at"),
\* index, its own depth, code, key, and for the member loop cindex, name
\* and n, the members still to read (the one being read included).
CallFrame(at, index, depth) ==
    [at |-> at, index |-> index, depth |-> depth, code |-> TypeCode.Null,
     key |-> 0, cindex |-> 0, name |-> << >>, n |-> 0]

\* "return;", and falling off the end of from_wire
Returns(m, st) == [m EXCEPT !.st = st, !.ret = TRUE]

\* "from_wire(buf, ctxt, depth+1)"
Calls(m, st, frame) ==
    [st |-> st, stack |-> << frame >> \o m.stack, depth |-> m.depth + 1,
     ret |-> FALSE]

ScalarCodes ==
    {TypeCode.Bool, TypeCode.Int8, TypeCode.Int16, TypeCode.Int32,
     TypeCode.Int64, TypeCode.UInt8, TypeCode.UInt16, TypeCode.UInt32,
     TypeCode.UInt64, TypeCode.Float32, TypeCode.Float64, TypeCode.String,
     TypeCode.Any}

\* descs[index].num_index = descs.size() - index
SetNumIndex_One(st, index) == [st EXCEPT !.descs[index + 1].num_index = 1]
SetNumIndex(st, index) ==
    [st EXCEPT !.descs[index + 1].num_index = Len(st.descs) - index]

\* the head of the loop over the members of the Struct or Union at index,
\* n members to go: the next member's name is read and its type decoded
\* by a nested call; after the last member the switch is left and
\* num_index assigned
FromWireMembers(m, st, index, n) ==
    IF n = 0 THEN Returns(m, SetNumIndex(st, index))
    ELSE LET name == GetString(st.buf)
         IN  Calls(m, [st EXCEPT !.buf = name.buf],
                    [CallFrame("member", index, m.depth) EXCEPT
                        !.cindex = Len(st.descs), !.name = name.val,
                        !.n = n])

\* from_wire from its entry to its first nested call, or to its return
\* where it makes none
FromWireCall(m) ==
    LET st == m.st
    IN  IF ~st.buf.good \/ TooDeep(m.depth) THEN Returns(m, CtxFault(st))
        ELSE
        LET rc == GetU8(st.buf, TypeCode.Null)
            code == rc.val
            index == Len(st.descs)
            s0 == [st EXCEPT !.buf = rc.buf]
        IN  CASE code = TypeCode.Null -> Returns(m, s0)
              [] code = TypeCode.CacheDefine ->
                    LET key == GetU16(s0.buf)
                    IN  Calls(m, [s0 EXCEPT !.buf = key.buf],
                               [CallFrame("define", index, m.depth) EXCEPT
                                   !.key = key.val])
              [] code = TypeCode.CacheRef ->
                    Returns(m, FromWireRef(s0, s0.buf))
              [] code \notin {TypeCode.Null, TypeCode.CacheDefine,
                              TypeCode.CacheRef} /\ FixedBit(code) ->
                    Returns(m, CtxFault(s0))
              [] OTHER ->
                    LET s1 == [s0 EXCEPT !.descs = Append(@, NewField(code))]
                    IN  CASE code \in {TypeCode.StructA, TypeCode.UnionA} ->
                              Calls(m, s1,
                                     [CallFrame("array", index, m.depth) EXCEPT
                                         !.code = code])
                          [] code \in {TypeCode.Struct, TypeCode.Union} ->
                              LET id == GetString(s1.buf)
                                  nfld == GetSize(id.buf)
                                  s2 == [s1 EXCEPT
                                            !.buf = nfld.buf,
                                            !.descs[index + 1].id = id.val]
                              IN  FromWireMembers(
                                      m, s2, index,
                                      IF nfld.val < 0 THEN 0 ELSE nfld.val)
                          [] OTHER ->
                              Returns(m, SetNumIndex(
                                  IF ScalarOf(code) \in ScalarCodes
                                  THEN s1 ELSE CtxFault(s1),
                                  index))

\* from_wire from the return of a nested call, which left m.st, to its
\* next nested call or to its own return
FromWireReturn(m) ==
    LET f == Head(m.stack)
        up == [m EXCEPT !.stack = Tail(@), !.depth = f.depth]
        st == m.st
        index == f.index
    IN  CASE f.at = "define" ->
                Returns(up,
                    IF ~st.buf.good \/ index = Len(st.descs)
                    THEN CtxFault(st)
                    ELSE [st EXCEPT !.cache =
                            MapPut(@, f.key,
                                   SubSeq(st.descs, index + 1,
                                          Len(st.descs)))])
          [] f.at = "array" ->
                LET child == IF Len(st.descs) > index + 1
                             THEN st.descs[index + 2].code
                             ELSE st.oob
                IN  Returns(up,
                        IF ~st.buf.good
                           \/ Len(st.descs) = index
                           \/ child /= ScalarOf(f.code)
                        THEN CtxFault(st)
                        ELSE SetNumIndex(st, index))
          [] f.at = "member" ->
                IF ~st.buf.good \/ f.cindex >= Len(st.descs)
                THEN Returns(up, CtxFault(st))
                ELSE LET fld == st.descs[index + 1]
                         cfld == st.descs[f.cindex + 1]
                         direct == MapPut(fld.mlookup, << f.name >>,
                                          f.cindex - index)
                         lookup ==
                             IF fld.code = TypeCode.Struct
                                /\ fld.code = cfld.code
                             THEN FlattenInto(direct, f.name, cfld.mlookup,
                                              index, f.cindex)
                             ELSE direct
                     IN  FromWireMembers(
                             up,
                             [st EXCEPT
                                 !.descs[index + 1].miter =
                                     Append(@, << f.name,
                                                  f.cindex - index >>),
                                 !.descs[index + 1].mlookup = lookup],
                             index, f.n - 1)

\* the call runs until it has returned to the caller that made it
RECURSIVE FromWireRun(_)
FromWireRun(m) ==
    IF m.ret /\ m.stack = << >> THEN m.st
    ELSE FromWireRun(IF m.ret THEN FromWireReturn(m) ELSE FromWireCall(m))

FromWire(st, depth) ==
    FromWireRun([st |-> st, stack |-> << >>, depth |-> depth,
                 ret |-> FALSE])

\* The FieldDesc array of a well-formed type, built from a type tree
\* [code, id, kids], kids a sequence of << name, tree >>: nodes in
\* depth-first order, relative indices, mlookup flattened through nested
\* Structs.
RECURSIVE Build(_)
RECURSIVE BuildMembers(_, _, _, _)
BuildMembers(t, i, node, rest) ==
    IF i > Len(t.kids)
    THEN << [node EXCEPT !.num_index = 1 + Len(rest)] >> \o rest
    ELSE LET name == t.kids[i][1]
             c == Build(t.kids[i][2])
             rel == 1 + Len(rest)
             direct == MapPut(node.mlookup, << name >>, rel)
             cm == c[1].mlookup
             lookup ==
                 IF node.code = TypeCode.Struct
                    /\ c[1].code = TypeCode.Struct
                 THEN [p \in DOMAIN direct
                              \cup { << name >> \o q : q \in DOMAIN cm } |->
                          IF Len(p) > 1 /\ p[1] = name
                             /\ Tail(p) \in DOMAIN cm
                          THEN rel + cm[Tail(p)] ELSE direct[p]]
                 ELSE direct
         IN  BuildMembers(t, i + 1,
                          [node EXCEPT !.miter = Append(@, << name, rel >>),
                                       !.mlookup = lookup],
                          rest \o c)

Build(t) ==
    IF t.code \in {TypeCode.StructA, TypeCode.UnionA}
    THEN LET c == Build(t.kids[1][2])
         IN  << [NewField(t.code) EXCEPT !.num_index = 1 + Len(c)] >> \o c
    ELSE BuildMembers(t, 1, [NewField(t.code) EXCEPT !.id = t.id], << >>)

\* the well-formed types handed to the type codec: nesting up to MaxNest
Tree(code, id, kids) == [code |-> code, id |-> id, kids |-> kids]
NameA == << 97 >>
NameB == << 98 >>
StructId == << 115, 116 >>
Leaves == { Tree(TypeCode.Int32, << >>, << >>) }
Seconds ==
    Leaves
    \cup { Tree(TypeCode.Struct, << >>, << << NameA, l >> >>) : l \in Leaves }

Compounds(code, id, sub) ==
    { Tree(code, id, << << NameA, k >> >>) : k \in sub }
    \cup { Tree(code, id, << << NameA, k >>, << NameB, l >> >>) :
              k \in sub, l \in Seconds }

RECURSIVE Trees(_)
Trees(d) ==
    IF d = 0 THEN Leaves
    ELSE LET sub == Trees(d - 1)
         IN  sub
             \cup Compounds(TypeCode.Struct, StructId, sub)
             \cup Compounds(TypeCode.Union, << >>, sub)
             \cup { Tree(TypeCode.StructA, << >>, << << << >>, k >> >>) :
                       k \in { x \in sub : x.code = TypeCode.Struct } }
             \cup { Tree(TypeCode.UnionA, << >>, << << << >>, k >> >>) :
                       k \in { x \in sub : x.code = TypeCode.Union } }

CodecFrame == UNCHANGED << serverVars, runVars, envVars >>

\* the outcomes of the read past the end of descs
OobCodes == {TypeCode.Null, TypeCode.Struct, TypeCode.Union}

\* a well-formed type is encoded, then the bytes are decoded with an
\* empty cache
TypeEncode ==
    /\ cpc = "type"
    /\ wire' = ToWire(Build(tin), 0)
    /\ cpc' = "encoded"
    /\ UNCHANGED << tin, tout, hist >>

TypeDecode ==
    /\ cpc = "encoded"
    /\ \E oob \in OobCodes :
          tout' = Result(FromWire(NewContext(wire, EmptyMap, oob), 0))
    /\ cpc' = "decoded"
    /\ UNCHANGED << tin, wire, hist >>

InitType ==
    /\ InitPvt /\ InitRun /\ InitEnv(NoEnv)
    /\ tin \in Trees(MaxNest)
    /\ wire = << >>
    /\ tout = << >>
    /\ hist = << >>
    /\ cpc = "type"

NextType == (TypeEncode \/ TypeDecode) /\ CodecFrame

SpecType == InitType /\ [][NextType]_vars

----------------------------------------------------------------------------
(* The value codec of dataencode.cpp for root Values of Struct type.  A   *)
(* storage cell is [code, val]: its StoreType and, for Integer and        *)
(* UInteger, the 64-bit content written as the signed integer with that   *)
(* bit pattern.  Widths of 1, 2 and 4 bytes are carried exactly.          *)

\* the StoreType of the cell of a field, by its TypeCode
StoreOf(code) ==
    CASE code \in {TypeCode.Int8, TypeCode.Int16, TypeCode.Int32,
                   TypeCode.Int64} -> "Integer"
      [] code \in {TypeCode.Bool, TypeCode.UInt8, TypeCode.UInt16,
                   TypeCode.UInt32, TypeCode.UInt64} -> "UInteger"
      [] code \in {TypeCode.Float32, TypeCode.Float64} -> "Real"
      [] code = TypeCode.String -> "String"
      [] code = TypeCode.Struct -> "Null"
      [] code \in {TypeCode.Union, TypeCode.Any} -> "Compound"
      [] OTHER -> "Array"

\* sizeof the wire type of a code
Width(code) ==
    CASE code \in {TypeCode.Bool, TypeCode.BoolA, TypeCode.Int8,
                   TypeCode.UInt8} -> 1
      [] code \in {TypeCode.Int16, TypeCode.UInt16} -> 2
      [] OTHER -> 4

\* to_wire of the low n bytes of v, and from_wire of a signed integer of
\* Len(bs) bytes
WireBytes(v, n) == [i \in 1..n |-> (v \div (256 ^ (i - 1))) % 256]

RECURSIVE Unsigned(_)
Unsigned(bs) ==
    IF bs = << >> THEN 0 ELSE Head(bs) + 256 * Unsigned(Tail(bs))

SignedOf(bs) ==
    LET n == Len(bs)
        top == IF bs[n] >= 128 THEN bs[n] - 256 ELSE bs[n]
    IN  Unsigned(SubSeq(bs, 1, n - 1)) + top * (256 ^ (n - 1))

\* from_wire_as<T>: T ret{}; from_wire(buf, ret); n is sizeof(T)
FromWireAs(b, n) ==
    IF b.good /\ b.pos + n - 1 <= Len(b.bytes)
    THEN [buf |-> [b EXCEPT !.pos = @ + n],
          val |-> SignedOf(SubSeq(b.bytes, b.pos, b.pos + n - 1))]
    ELSE [buf |-> Fault(b), val |-> 0]

\* FieldDesc_calculate_offset on a Struct of scalars and Structs: one
\* cell per node, in depth-first order
CalcOffset(descs) ==
    [i \in 1..Len(descs) |->
        [code |-> descs[i].code, id |-> descs[i].id,
         miter |-> descs[i].miter, mlookup |-> descs[i].mlookup,
         num_index |-> descs[i].num_index,
         offset |-> i - 1, next_offset |-> i - 1 + descs[i].num_index]]

\* StructTop::member_indicies of such a Struct
MemberIndex(off) == off

\* to_wire_field(buf, desc, store), desc = descs + di and
\* store = cells + ci; ok is FALSE where the code reaches assert(false)
\* to_wire<E,C>(buf, varr) after the Size: each element as C, w bytes
RECURSIVE ElemsToWire(_, _, _)
ElemsToWire(elems, w, bool) ==
    IF elems = << >> THEN << >>
    ELSE (IF bool THEN << IF Head(elems) /= 0 THEN 1 ELSE 0 >>
          ELSE WireBytes(Head(elems), w))
         \o ElemsToWire(Tail(elems), w, bool)

\* from_wire<E,C>(buf, varr) after the Size: n elements of w bytes are
\* read into the local arr, which is dropped on return
RECURSIVE ElemsFromWire(_, _, _)
ElemsFromWire(b, n, w) ==
    IF n <= 0 THEN b ELSE ElemsFromWire(FromWireAs(b, w).buf, n - 1, w)

\* the codes the Array cases of to_wire_field and from_wire_field name
\* for arrays of integers
ArraySwitchCodes ==
    {TypeCode.Int8, TypeCode.UInt8, TypeCode.Int16, TypeCode.UInt16,
     TypeCode.Int32, TypeCode.UInt32}

\* What to_wire_field leaves: the bytes written, ok FALSE after
\* "assert(false); buf.fault()", thrown TRUE after a std::logic_error
Wrote(bytes) == [ok |-> TRUE, thrown |-> FALSE, bytes |-> bytes]

RECURSIVE ToWireField(_, _, _, _)
RECURSIVE ToWireStruct(_, _, _, _, _)
ToWireStruct(descs, di, cells, ci, off) ==
    IF off >= descs[di + 1].next_offset THEN Wrote(<< >>)
    ELSE LET cdesc == di + MemberIndex(off)
             one == IF descs[cdesc + 1].code /= TypeCode.Struct
                    THEN ToWireField(descs, cdesc, cells, ci + off)
                    ELSE Wrote(<< >>)
             rest == ToWireStruct(descs, di, cells, ci, off + 1)
         IN  IF one.thrown THEN one
             ELSE [ok |-> one.ok /\ rest.ok, thrown |-> rest.thrown,
                   bytes |-> one.bytes \o rest.bytes]

\* the loop of lines 303-308: the index of the first miter entry whose
\* FieldDesc is that of the sub-Value fld, miter.size() if there is none
UnionSelect_Zero(descs, di, fld) == 0
UnionSelect(descs, di, fld) ==
    LET miter == descs[di + 1].miter
        hits == { i \in 1..Len(miter) : di + miter[i][2] = fld.desc }
    IN  IF hits = {} THEN Len(miter)
        ELSE (CHOOSE i \in hits : \A j \in hits : i <= j) - 1

ToWireField(descs, di, cells, ci) ==
    LET code == descs[di + 1].code
        store == cells[ci + 1]
        index == UnionSelect(descs, di, store.val)
        sub == ToWireField(descs, store.val.desc, store.val.cells, 0)
    IN  CASE store.code = "Null" /\ code = TypeCode.Struct ->
                ToWireStruct(descs, di, cells, ci,
                             descs[di + 1].offset + 1)
          [] store.code = "Integer"
             /\ code \in {TypeCode.Int8, TypeCode.Int16, TypeCode.Int32} ->
                Wrote(WireBytes(store.val, Width(code)))
          [] store.code = "UInteger" /\ code = TypeCode.Bool ->
                Wrote(<< IF store.val /= 0 THEN 1 ELSE 0 >>)
          [] store.code = "UInteger"
             /\ code \in {TypeCode.UInt8, TypeCode.UInt16,
                          TypeCode.UInt32} ->
                Wrote(WireBytes(store.val, Width(code)))
          [] store.code = "Array" /\ code = TypeCode.BoolA ->
                Wrote(PutSize(store.val.n)
                      \o ElemsToWire(store.val.elems, 1, TRUE))
          [] store.code = "Array" /\ code \in ArraySwitchCodes ->
                Wrote(PutSize(store.val.n)
                      \o ElemsToWire(store.val.elems, Width(code), FALSE))
          [] store.code = "Compound" /\ code = TypeCode.Union ->
                IF store.val.null THEN Wrote(PutSize(-1))
                ELSE IF index >= Len(descs[di + 1].miter)
                THEN [ok |-> FALSE, thrown |-> TRUE, bytes |-> << >>]
                ELSE [sub EXCEPT !.bytes = PutSize(index) \o @]
          [] OTHER -> [ok |-> FALSE, thrown |-> FALSE, bytes |-> << >>]

\* A Value held in a Compound cell or as an array element: null, or the
\* index desc of its FieldDesc in the array of the enclosing type and its
\* own storage cells
NullValue == [null |-> TRUE, desc |-> -1, cells |-> << >>]

\* the content of a default-initialised cell of a StoreType
DefaultOf(store) ==
    CASE store = "Array" -> [n |-> 0, elems |-> << >>]
      [] store = "Compound" -> NullValue
      [] OTHER -> 0

\* Value::Helper::build(stype, ...): default-initialised storage for the
\* type at index d, one cell per node of its own storage tree
BuildAt(descs, d) ==
    [null |-> FALSE, desc |-> d,
     cells |-> [i \in 1..(descs[d + 1].next_offset - descs[d + 1].offset) |->
                  [code |-> StoreOf(descs[d + i].code),
                   val |-> DefaultOf(StoreOf(descs[d + i].code))]]]

\* from_wire_field(buf, ctxt, desc, store): st is [buf, cells]
RECURSIVE FromWireField(_, _, _, _)
RECURSIVE FromWireStruct(_, _, _, _, _)
RECURSIVE FromWireStructA(_, _, _, _, _)
RECURSIVE FromWireUnionA(_, _, _, _, _)
FromWireStruct(st, descs, di, ci, off) ==
    IF off >= descs[di + 1].next_offset THEN st
    ELSE LET cdesc == di + MemberIndex(off)
             s1 == IF descs[cdesc + 1].code /= TypeCode.Struct
                   THEN FromWireField(st, descs, cdesc, ci + off)
                   ELSE st
         IN  FromWireStruct(s1, descs, di, ci, off + 1)

\* the loop over the n elements still to read of a StructA: each has a
\* presence byte, tested with "!= 0"; arr holds the elements read
FromWireStructA(b, descs, di, n, arr) ==
    IF n <= 0 THEN [buf |-> b, arr |-> arr, returned |-> FALSE]
    ELSE LET present == FromWireAs(b, 1)
             blank == BuildAt(descs, di + 1)
             full == FromWireField([buf |-> present.buf,
                                    cells |-> blank.cells],
                                   descs, di + 1, 0)
         IN  IF present.val /= 0
             THEN FromWireStructA(full.buf, descs, di, n - 1,
                      Append(arr, [blank EXCEPT !.cells = full.cells]))
             ELSE FromWireStructA(present.buf, descs, di, n - 1,
                                  Append(arr, NullValue))

\* the same loop of a UnionA: a present element starts with its selector;
\* an invalid selector is "buf.fault(); return;"
FromWireUnionA(b, descs, di, n, arr) ==
    IF n <= 0 THEN [buf |-> b, arr |-> arr, returned |-> FALSE]
    ELSE LET present == FromWireAs(b, 1)
             select == GetSize(present.buf)
             cdesc == di + 1
             blank == BuildAt(descs,
                              cdesc + descs[cdesc + 1].miter[select.val + 1][2])
             full == FromWireField([buf |-> select.buf,
                                    cells |-> blank.cells],
                                   descs, blank.desc, 0)
         IN  IF present.val = 0
             THEN FromWireUnionA(present.buf, descs, di, n - 1,
                                 Append(arr, NullValue))
             ELSE IF select.val = -1
             THEN FromWireUnionA(select.buf, descs, di, n - 1,
                                 Append(arr, NullValue))
             ELSE IF select.val < Len(descs[cdesc + 1].miter)
             THEN FromWireUnionA(full.buf, descs, di, n - 1,
                      Append(arr, [blank EXCEPT !.cells = full.cells]))
             ELSE [buf |-> Fault(select.buf), arr |-> arr,
                   returned |-> TRUE]

\* UInt8, UInt16 and UInt32 are read as int8_t, int16_t and int32_t
\* and widened to the 64-bit cell
FromWireField(st, descs, di, ci) ==
    LET code == descs[di + 1].code
        store == st.cells[ci + 1]
        r == FromWireAs(st.buf, Width(code))
        alen == GetSize(st.buf)
        arr == IF code = TypeCode.StructA
               THEN FromWireStructA(alen.buf, descs, di, alen.val, << >>)
               ELSE FromWireUnionA(alen.buf, descs, di, alen.val, << >>)
        select == alen
        blank == BuildAt(descs,
                         di + descs[di + 1].miter[select.val + 1][2])
        full == FromWireField([buf |-> select.buf, cells |-> blank.cells],
                              descs, blank.desc, 0)
    IN  CASE store.code = "Array"
             /\ code \in {TypeCode.BoolA} \cup ArraySwitchCodes ->
                [buf |-> ElemsFromWire(alen.buf, alen.val, Width(code)),
                 cells |-> st.cells]
          [] store.code = "Compound" /\ code = TypeCode.Union ->
                IF select.val = -1
                THEN [buf |-> select.buf,
                      cells |-> [st.cells EXCEPT ![ci + 1].val = NullValue]]
                ELSE IF select.val < Len(descs[di + 1].miter)
                THEN [buf |-> full.buf,
                      cells |-> [st.cells EXCEPT ![ci + 1].val =
                                    [blank EXCEPT !.cells = full.cells]]]
                ELSE [buf |-> Fault(select.buf), cells |-> st.cells]
          [] store.code = "Array"
             /\ code \in {TypeCode.StructA, TypeCode.UnionA} ->
                [buf |-> arr.buf,
                 cells |-> IF arr.returned THEN st.cells
                           ELSE [st.cells EXCEPT ![ci + 1].val =
                                    [n |-> alen.val, elems |-> arr.arr]]]
          [] store.code = "Null" /\ code = TypeCode.Struct ->
                FromWireStruct(st, descs, di, ci, descs[di + 1].offset + 1)
          [] store.code = "Integer"
             /\ code \in {TypeCode.Int8, TypeCode.Int16, TypeCode.Int32} ->
                [buf |-> r.buf,
                 cells |-> [st.cells EXCEPT ![ci + 1].val = r.val]]
          [] store.code = "UInteger" /\ code = TypeCode.Bool ->
                [buf |-> r.buf,
                 cells |-> [st.cells EXCEPT ![ci + 1].val =
                               IF r.val /= 0 THEN 1 ELSE 0]]
          [] store.code = "UInteger"
             /\ code \in {TypeCode.UInt8, TypeCode.UInt16,
                          TypeCode.UInt32} ->
                [buf |-> r.buf,
                 cells |-> [st.cells EXCEPT ![ci + 1].val = r.val]]
          [] OTHER -> [buf |-> Fault(st.buf), cells |-> st.cells]

\* to_wire_full and from_wire_full of a root Value [descs, cells]
ToWireFull(v) == ToWireField(v.descs, 0, v.cells, 0)
FromWireFull(b, w) ==
    FromWireField([buf |-> b, cells |-> w.cells], w.descs, 0, 0)

\* the Struct types of the Values handed to the value codec
Scalar(code) == Tree(code, << >>, << >>)
ValueTypes ==
    { Tree(TypeCode.Struct, << >>,
           << << NameA, Scalar(TypeCode.UInt8) >>,
              << NameB, Scalar(TypeCode.Int8) >> >>),
      Tree(TypeCode.Struct, << >>,
           << << NameA, Scalar(TypeCode.Int16) >>,
              << NameB,
                 Tree(TypeCode.Struct, StructId,
                      << << NameA, Scalar(TypeCode.UInt16) >>,
                         << NameB, Scalar(TypeCode.Bool) >> >>) >> >>),
      Tree(TypeCode.Struct, << >>,
           << << NameA, Scalar(TypeCode.Int32) >>,
              << NameB, Scalar(TypeCode.Int32) >> >>) }

\* the contents a cell of a field of the code can hold
CellValues(code) ==
    CASE code = TypeCode.UInt8 -> {0, 127, 128, 200, 255}
      [] code = TypeCode.Int8 -> {-128, -1, 0, 127}
      [] code = TypeCode.UInt16 -> {0, 32767, 32768, 65535}
      [] code = TypeCode.Int16 -> {-32768, -1, 300}
      [] code = TypeCode.Int32 -> {-1, 0, 7, 99}
      [] code = TypeCode.Bool -> {0, 1}
      [] OTHER -> {0}

\* the Values of a type: every cell holds any content of its field's code
RECURSIVE CellSeqs(_, _)
CellSeqs(descs, i) ==
    IF i > Len(descs) THEN { << >> }
    ELSE { << [code |-> StoreOf(descs[i].code), val |-> x] >> \o rest :
              x \in CellValues(descs[i].code),
              rest \in CellSeqs(descs, i + 1) }

Values(t) ==
    LET descs == CalcOffset(Build(t))
    IN  { [descs |-> descs, cells |-> c] : c \in CellSeqs(descs, 1) }

\* Value::Helper::build: the Value of the same type with every cell
\* default-initialised
Blank(v) ==
    [descs |-> v.descs,
     cells |-> [i \in 1..Len(v.cells) |->
                   [code |-> v.cells[i].code, val |-> 0]]]

\* a Value is encoded in full, then the bytes are decoded in full into a
\* blank Value of the same type
FullEncode ==
    /\ cpc = "full"
    /\ wire' = ToWireFull(tin).bytes
    /\ cpc' = "fullEncoded"
    /\ UNCHANGED << tin, tout, hist >>

FullDecode ==
    /\ cpc = "fullEncoded"
    /\ tout' = FromWireFull(NewBuf(wire), Blank(tin))
    /\ cpc' = "fullDecoded"
    /\ UNCHANGED << tin, wire, hist >>

InitFull ==
    /\ InitPvt /\ InitRun /\ InitEnv(NoEnv)
    /\ \E t \in ValueTypes : tin \in Values(t)
    /\ wire = << >>
    /\ tout = << >>
    /\ hist = << >>
    /\ cpc = "full"

NextFull == (FullEncode \/ FullDecode) /\ CodecFrame

SpecFull == InitFull /\ [][NextFull]_vars

\* to_wire and from_wire of the valid BitMask of n bits: a Size giving
\* the byte length, then the bytes, bit i in byte i \div 8; from_wire
\* followed by resize(n)
RECURSIVE SumOf(_)
SumOf(S) ==
    IF S = {} THEN 0
    ELSE LET x == CHOOSE y \in S : TRUE IN x + SumOf(S \ {x})

BitsToWire(valid, n) ==
    LET B == (n + 7) \div 8
    IN  PutSize(B)
        \o [j \in 1..B |->
               SumOf({ 2 ^ (i % 8) : i \in { k \in valid : k \div 8 = j - 1 } })]

BitsFromWire(b, n) ==
    LET B == GetSize(b)
        len == IF B.val < 0 THEN 0 ELSE B.val
    IN  IF ~B.buf.good \/ B.buf.pos + len - 1 > Len(B.buf.bytes)
        THEN [buf |-> Fault(B.buf), val |-> {}]
        ELSE [buf |-> [B.buf EXCEPT !.pos = @ + len],
              val |-> { i \in 0..(n - 1) :
                          /\ i \div 8 < len
                          /\ (B.buf.bytes[B.buf.pos + i \div 8]
                                 \div (2 ^ (i % 8))) % 2 = 1 }]

\* BitMask::findSet: the first set bit at or after from, the size if none
FindSet(valid, n, from) ==
    IF \E i \in valid : from <= i /\ i < n
    THEN CHOOSE i \in valid :
            /\ from <= i /\ i < n
            /\ \A k \in valid : (from <= k /\ k < n) => i <= k
    ELSE n

\* to_wire_valid of the root Value v with top->valid = valid
RECURSIVE ToWireMarked(_, _, _)
ToWireMarked(v, valid, bit) ==
    IF bit >= v.descs[1].next_offset THEN Wrote(<< >>)
    ELSE LET one == ToWireField(v.descs, MemberIndex(bit), v.cells, bit)
             rest == ToWireMarked(v, valid,
                                  FindSet(valid, Len(v.cells), bit + 1))
         IN  IF one.thrown THEN one
             ELSE [ok |-> one.ok /\ rest.ok, thrown |-> rest.thrown,
                   bytes |-> one.bytes \o rest.bytes]

ToWireValid(v, valid) ==
    LET n == Len(v.cells)
        marked == ToWireMarked(v, valid,
                               FindSet(valid, n, v.descs[1].offset))
    IN  [ok |-> marked.ok,
         bytes |-> BitsToWire(valid, n) \o marked.bytes]

\* from_wire_valid into the root Value w: st is [buf, cells]
RECURSIVE FromWireMarked(_, _, _, _)
FromWireMarked(st, descs, valid, bit) ==
    IF bit >= descs[1].next_offset THEN st
    ELSE FromWireMarked(
             FromWireField(st, descs, MemberIndex(bit), bit),
             descs, valid, FindSet(valid, Len(st.cells), bit + 1))

FromWireValid(b, w) ==
    LET n == Len(w.cells)
        bits == BitsFromWire(b, n)
        st == [buf |-> bits.buf, cells |-> w.cells]
        res == IF ~bits.buf.good THEN st
               ELSE FromWireMarked(st, w.descs, bits.val,
                                   FindSet(bits.val, n, w.descs[1].offset))
    IN  [buf |-> res.buf, cells |-> res.cells, valid |-> bits.val]

\* the Values handed to the valid-mode codec: Structs of scalars
ValidTypes ==
    { t \in ValueTypes :
        \A i \in 1..Len(t.kids) : t.kids[i][2].kids = << >> }

\* a root Value tin.v with the bits tin.valid marked is encoded in valid
\* mode, then the bytes are decoded in valid mode into the Value tin.w
ValidEncode ==
    /\ cpc = "valid"
    /\ wire' = ToWireValid(tin.v, tin.valid).bytes
    /\ cpc' = "validEncoded"
    /\ UNCHANGED << tin, tout, hist >>

ValidDecode ==
    /\ cpc = "validEncoded"
    /\ tout' = FromWireValid(NewBuf(wire), tin.w)
    /\ cpc' = "validDecoded"
    /\ UNCHANGED << tin, wire, hist >>

InitValid ==
    /\ InitPvt /\ InitRun /\ InitEnv(NoEnv)
    /\ \E t \in ValidTypes :
          \E v \in Values(t), w \in Values(t) :
             \E valid \in SUBSET (0..(Len(v.cells) - 1)) :
                tin = [v |-> v, valid |-> valid, w |-> w]
    /\ wire = << >>
    /\ tout = << >>
    /\ hist = << >>
    /\ cpc = "valid"

NextValid == (ValidEncode \/ ValidDecode) /\ CodecFrame

SpecValid == InitValid /\ [][NextValid]_vars

\* The decode calls made on one connection: each call decodes one
\* message with a fresh descs and the cache the calls before left.
\* A call is [kind, key, key2, tree]; CallBytes is what the peer sent.
CacheKeys == 1..NumKeys
CacheTrees ==
    Leaves
    \cup { Tree(TypeCode.Struct, StructId, << << NameA, l >> >>) :
              l \in Seconds \ Leaves }

\* bytes no type decode accepts: a Struct cut short after a member name,
\* a Cache-Ref to a key no call defines, a code with the bit 0x10
BadPayloads ==
    { << TypeCode.Struct, 0, 1 >> \o PutString(NameA),
      << TypeCode.CacheRef >> \o PutU16(NumKeys + 1),
      << TypeCode.Int32 + 16 >> }

Call(kind, key, key2, tree, bad) ==
    [kind |-> kind, key |-> key, key2 |-> key2, tree |-> tree, bad |-> bad]

CacheCalls ==
    { Call("define", k, 0, t, << >>) : k \in CacheKeys, t \in CacheTrees }
    \cup { Call("defineIn", k, 0, t, << >>) :
              k \in CacheKeys, t \in CacheTrees }
    \cup { Call("defineNull", k, 0, CHOOSE t \in Leaves : TRUE, << >>) :
              k \in CacheKeys }
    \cup { Call("defineBad", k, 0, CHOOSE t \in Leaves : TRUE, b) :
              k \in CacheKeys, b \in BadPayloads }
    \cup { c \in { Call("defineInBad", k, k2, t, << >>) :
                       k \in CacheKeys, k2 \in CacheKeys, t \in Leaves } :
              c.key /= c.key2 }
    \cup { Call(kind, k, 0, CHOOSE t \in Leaves : TRUE, << >>) :
              kind \in {"ref", "refIn"}, k \in 1..(NumKeys + 1) }

Define(key, payload) == << TypeCode.CacheDefine >> \o PutU16(key) \o payload

\* Struct{a: Int32, b: <payload>}
Wrapped(payload) ==
    << TypeCode.Struct >> \o PutString(<< >>) \o PutSize(2)
    \o PutString(NameA) \o << TypeCode.Int32 >>
    \o PutString(NameB) \o payload

CallBytes(c) ==
    CASE c.kind = "define" -> Define(c.key, ToWire(Build(c.tree), 0))
      [] c.kind = "defineIn" ->
            Wrapped(Define(c.key, ToWire(Build(c.tree), 0)))
      [] c.kind = "defineNull" -> Define(c.key, << TypeCode.Null >>)
      [] c.kind = "defineBad" -> Define(c.key, c.bad)
      [] c.kind = "defineInBad" ->
            Define(c.key,
                   << TypeCode.Struct >> \o PutString(<< >>) \o PutSize(2)
                   \o PutString(NameA)
                   \o Define(c.key2, ToWire(Build(c.tree), 0))
                   \o PutString(NameB))
      [] c.kind = "ref" -> << TypeCode.CacheRef >> \o PutU16(c.key)
      [] c.kind = "refIn" ->
            Wrapped(<< TypeCode.CacheRef >> \o PutU16(c.key))

\* the nodes the payload of the successful Cache-Define of the call
\* appended to descs, and the key it defines
Defined(c, descs) ==
    CASE c.kind = "define" -> [key |-> c.key, nodes |-> descs]
      [] c.kind = "defineIn" ->
            [key |-> c.key, nodes |-> SubSeq(descs, 3, Len(descs))]
      [] c.kind = "defineInBad" ->
            [key |-> c.key2, nodes |-> SubSeq(descs, 2, Len(descs))]
      [] OTHER -> [key |-> 0, nodes |-> << >>]

\* one more message is decoded; hist keeps the call, the bindings that
\* the successful Cache-Defines before it made (before) and those made up
\* to and including it (bound)
DecodeCall(c) ==
    /\ cpc = "connected"
    /\ \E oob \in OobCodes :
          LET res == FromWire(NewContext(CallBytes(c), tout.cache, oob), 0)
              def == Defined(c, res.descs)
          IN  /\ tout' = Result(res)
              /\ hist' = [call |-> c,
                          before |-> hist.bound,
                          bound |-> IF def.key = 0 THEN hist.bound
                                    ELSE MapPut(hist.bound, def.key,
                                                def.nodes)]
    /\ wire' = CallBytes(c)
    /\ UNCHANGED << tin, cpc >>

NoCall == Call("none", 0, 0, CHOOSE t \in Leaves : TRUE, << >>)

InitCache ==
    /\ InitPvt /\ InitRun /\ InitEnv(NoEnv)
    /\ tin = << >>
    /\ wire = << >>
    /\ tout = Result(NewContext(<< >>, EmptyMap, TypeCode.Null))
    /\ hist = [call |-> NoCall, before |-> EmptyMap, bound |-> EmptyMap]
    /\ cpc = "connected"

NextCache == (\E c \in CacheCalls : DecodeCall(c)) /\ CodecFrame

SpecCache == InitCache /\ [][NextCache]_vars

\* Type streams of a given nesting depth: level i of the stream wraps
\* the rest in the kind pattern[i % Len(pattern) + 1], "S" a Struct
\* member, "U" a Union member, "A" a StructA element, "B" a UnionA
\* element, "D" a Cache-Define; the innermost code is read at depth n.
Patterns ==
    { << "S" >>, << "U" >>, << "D" >>, << "A", "S" >>, << "B", "U" >>,
      << "S", "D" >>, << "A", "D", "S" >>, << "D", "U", "S" >> }

KindAt(pattern, i) == pattern[(i % Len(pattern)) + 1]

\* the kind of the innermost wrapper that is not a Cache-Define
Innermost(pattern, n) ==
    LET real == { j \in 0..(n - 1) : KindAt(pattern, j) /= "D" }
    IN  IF real = {} THEN "none"
        ELSE KindAt(pattern, CHOOSE j \in real : \A k \in real : k <= j)

\* what a wrapper of the kind puts before the type it wraps
Prefix(kind) ==
    CASE kind = "S" ->
            << TypeCode.Struct >> \o PutString(<< >>) \o PutSize(1)
            \o PutString(NameA)
      [] kind = "U" ->
            << TypeCode.Union >> \o PutString(<< >>) \o PutSize(1)
            \o PutString(NameA)
      [] kind = "A" -> << TypeCode.StructA >>
      [] kind = "B" -> << TypeCode.UnionA >>
      [] kind = "D" -> Define(1, << >>)

RECURSIVE ChainBytes(_, _, _)
ChainBytes(pattern, i, n) ==
    IF i = n
    THEN CASE Innermost(pattern, n) = "A" ->
                << TypeCode.Struct >> \o PutString(<< >>) \o PutSize(0)
           [] Innermost(pattern, n) = "B" ->
                << TypeCode.Union >> \o PutString(<< >>) \o PutSize(0)
           [] OTHER -> << TypeCode.Int32 >>
    ELSE Prefix(KindAt(pattern, i)) \o ChainBytes(pattern, i + 1, n)

\* a stream of nesting depth tin.depth is decoded with an empty cache
DepthDecode ==
    /\ cpc = "stream"
    /\ wire' = ChainBytes(tin.pattern, 0, tin.depth)
    /\ \E oob \in OobCodes :
          tout' = Result(FromWire(NewContext(wire', EmptyMap, oob), 0))
    /\ cpc' = "streamDecoded"
    /\ UNCHANGED << tin, hist >>

InitDepth ==
    /\ InitPvt /\ InitRun /\ InitEnv(NoEnv)
    /\ \E p \in Patterns, n \in 0..(MaxTypeDepth + MaxOver) :
          tin = [pattern |-> p, depth |-> n]
    /\ wire = << >>
    /\ tout = << >>
    /\ hist = << >>
    /\ cpc = "stream"

NextDepth == DepthDecode /\ CodecFrame

SpecDepth == InitDepth /\ [][NextDepth]_vars

\* The types of the array Values decoded: StructA of Struct{a: Int8} and
\* UnionA of Union{a: Int8, b: Int16}.  The array node has one cell; each
\* element, and each Union member, is a storage tree of its own.
Rooted(descs) ==
    [i \in 1..Len(descs) |->
        [CalcOffset(descs)[i] EXCEPT !.offset = 0, !.next_offset = 1]]

StructAType ==
    LET d == Build(Tree(TypeCode.StructA, << >>,
                   << << << >>,
                         Tree(TypeCode.Struct, << >>,
                              << << NameA, Scalar(TypeCode.Int8) >> >>)
                      >> >>))
    IN  << Rooted(d)[1] >> \o CalcOffset(Tail(d))

UnionAType ==
    Rooted(Build(Tree(TypeCode.UnionA, << >>,
        << << << >>,
              Tree(TypeCode.Union, << >>,
                   << << NameA, Scalar(TypeCode.Int8) >>,
                      << NameB, Scalar(TypeCode.Int16) >> >>) >> >>)))

\* what a peer sends for one element: the presence byte, for a UnionA
\* the selector (sel, -2 where there is none), and the member's bytes
Elem(present, sel, bytes) ==
    [present |-> present, sel |-> sel, bytes |-> bytes]

PresenceBytes == {0, 1, 2, 255}

StructAElems ==
    { Elem(0, -2, << >>) }
    \cup { Elem(pr, -2, << 5 >>) : pr \in PresenceBytes \ {0} }

UnionAElems ==
    { Elem(0, -2, << >>) }
    \cup { Elem(pr, 0, << 5 >>) : pr \in {1, 2} }
    \cup { Elem(pr, 1, << 44, 1 >>) : pr \in {1, 2} }
    \cup { Elem(pr, -1, << >>) : pr \in {1, 2} }
    \cup { Elem(pr, 2, << 5 >>) : pr \in {1, 2} }

RECURSIVE ElemSeqs(_, _)
ElemSeqs(elems, n) ==
    IF n = 0 THEN { << >> }
    ELSE { << e >> \o rest : e \in elems, rest \in ElemSeqs(elems, n - 1) }

RECURSIVE ElemBytes(_)
ElemBytes(es) ==
    IF es = << >> THEN << >>
    ELSE LET e == Head(es)
         IN  << e.present >>
             \o (IF e.sel = -2 THEN << >> ELSE PutSize(e.sel))
             \o e.bytes \o ElemBytes(Tail(es))

\* an array Value of tin.descs is decoded in full from the bytes of the
\* elements tin.elems
ArrayDecode ==
    /\ cpc = "array"
    /\ wire' = PutSize(Len(tin.elems)) \o ElemBytes(tin.elems)
    /\ tout' = FromWireField(
                  [buf |-> NewBuf(wire'), cells |-> BuildAt(tin.descs, 0).cells],
                  tin.descs, 0, 0)
    /\ cpc' = "arrayDecoded"
    /\ UNCHANGED << tin, hist >>

InitArray ==
    /\ InitPvt /\ InitRun /\ InitEnv(NoEnv)
    /\ \E n \in 0..MaxElems :
          \/ \E es \in ElemSeqs(StructAElems, n) :
                tin = [descs |-> StructAType, elems |-> es]
          \/ \E es \in ElemSeqs(UnionAElems, n) :
                tin = [descs |-> UnionAType, elems |-> es]
    /\ wire = << >>
    /\ tout = << >>
    /\ hist = << >>
    /\ cpc = "array"

NextArray == ArrayDecode /\ CodecFrame

SpecArray == InitArray /\ [][NextArray]_vars

\* The Union Values encoded and decoded: the root is
\* Union{a: Int8, b: Union{a: Int16}}, nodes 0 (root), 1 (a), 2 (b) and
\* 3 (b.a); each member is a storage tree of its own.
UnionType ==
    Rooted(Build(Tree(TypeCode.Union, << >>,
        << << NameA, Scalar(TypeCode.Int8) >>,
           << NameB, Tree(TypeCode.Union, << >>,
                          << << NameA, Scalar(TypeCode.Int16) >> >>) >> >>)))

\* what the root's Compound cell may hold: nothing, a Value of member a,
\* or a Value whose FieldDesc is node 3, which is no member of the root
SubValues ==
    { NullValue }
    \cup { [null |-> FALSE, desc |-> d,
            cells |-> << [code |-> "Integer", val |-> x] >>] :
             d \in {1, 3}, x \in {0, 5, -1} }

UnionStreams ==
    { << >>, << 255 >>, << 0 >>, << 0, 5 >>, << 0, 255 >>, << 1, 255 >>,
      << 1, 0, 44, 1 >>, << 1, 1 >>, << 2 >>, << 2, 5 >>, << 253 >> }

UnionValue(sub) == [descs |-> UnionType,
                    cells |-> << [code |-> "Compound", val |-> sub] >>]

\* to_wire_full of the root holding tin.sub
UnionEncode ==
    /\ cpc = "union"
    /\ LET res == ToWireFull(UnionValue(tin.sub))
       IN  /\ wire' = res.bytes
           /\ hist' = [ok |-> res.ok, thrown |-> res.thrown]
    /\ cpc' = "unionEncoded"
    /\ UNCHANGED << tin, tout >>

\* from_wire_full of tin.bytes into a root holding nothing
UnionDecode ==
    /\ cpc = "union"
    /\ tout' = FromWireField([buf |-> NewBuf(tin.bytes),
                              cells |-> UnionValue(NullValue).cells],
                             UnionType, 0, 0)
    /\ cpc' = "unionDecoded"
    /\ UNCHANGED << tin, wire, hist >>

\* to_wire_full of the root as decoded
UnionReencode ==
    /\ cpc = "unionDecoded"
    /\ LET res == ToWireField(UnionType, 0, tout.cells, 0)
       IN  /\ wire' = res.bytes
           /\ hist' = [ok |-> res.ok, thrown |-> res.thrown]
    /\ cpc' = "unionReencoded"
    /\ UNCHANGED << tin, tout >>

InitUnion ==
    /\ InitPvt /\ InitRun /\ InitEnv(NoEnv)
    /\ \E sub \in SubValues, bytes \in UnionStreams :
          tin = [sub |-> sub, bytes |-> bytes]
    /\ wire = << >>
    /\ tout = << >>
    /\ hist = << >>
    /\ cpc = "union"

NextUnion == (UnionEncode \/ UnionDecode \/ UnionReencode) /\ CodecFrame

SpecUnion == InitUnion /\ [][NextUnion]_vars

\* The scalar-array fields encoded and decoded: a root Value of one cell
\* of storage category Array whose code is a scalar-array code, holding
\* up to MaxElems elements.
ScalarACodes ==
    {TypeCode.BoolA, TypeCode.Int8A, TypeCode.UInt8A, TypeCode.Int16A,
     TypeCode.Int32A}

ElemValues(code) == IF code = TypeCode.BoolA THEN {0, 1} ELSE {0, 1, 5}

RECURSIVE IntSeqs(_, _)
IntSeqs(vals, n) ==
    IF n = 0 THEN { << >> }
    ELSE { << e >> \o rest : e \in vals, rest \in IntSeqs(vals, n - 1) }

ScalarAType(code) == Rooted(<< [NewField(code) EXCEPT !.num_index = 1] >>)

ScalarAValue(code, elems) ==
    [descs |-> ScalarAType(code),
     cells |-> << [code |-> StoreOf(code),
                   val |-> [n |-> Len(elems), elems |-> elems]] >>]

\* the wire form of the array: Size n, then the n elements
ScalarAWire(code, elems) ==
    PutSize(Len(elems))
    \o ElemsToWire(elems, Width(ScalarOf(code)), code = TypeCode.BoolA)

\* to_wire_full of the array Value
ScalarAEncode ==
    /\ cpc = "scalarA"
    /\ LET res == ToWireFull(ScalarAValue(tin.code, tin.elems))
       IN  /\ wire' = res.bytes
           /\ hist' = [ok |-> res.ok, thrown |-> res.thrown]
    /\ cpc' = "scalarAEncoded"
    /\ UNCHANGED << tin, tout >>

\* from_wire_full of the array's wire form into an empty array Value
ScalarADecode ==
    /\ cpc = "scalarA"
    /\ wire' = ScalarAWire(tin.code, tin.elems)
    /\ tout' = FromWireField(
                  [buf |-> NewBuf(wire'),
                   cells |-> ScalarAValue(tin.code, << >>).cells],
                  ScalarAType(tin.code), 0, 0)
    /\ cpc' = "scalarADecoded"
    /\ UNCHANGED << tin, hist >>

InitScalarA ==
    /\ InitPvt /\ InitRun /\ InitEnv(NoEnv)
    /\ \E code \in ScalarACodes, n \in 0..MaxElems :
          \E elems \in IntSeqs(ElemValues(code), n) :
             tin = [code |-> code, elems |-> elems]
    /\ wire = << >>
    /\ tout = << >>
    /\ hist = << >>
    /\ cpc = "scalarA"

NextScalarA == (ScalarAEncode \/ ScalarADecode) /\ CodecFrame

SpecScalarA == InitScalarA /\ [][NextScalarA]_vars

\* The array-of-compound type streams decoded: the code StructA or
\* UnionA followed by an element description that is Null, a scalar, or
\* a Struct or Union with or without a member, at the top of the stream
\* or as the second member of a Struct.
ElemTrees ==
    { Scalar(c) : c \in ScalarCodes \cup {TypeCode.Null} }
    \cup { Tree(c, << >>, kids) :
              c \in {TypeCode.Struct, TypeCode.Union},
              kids \in { << >>, << << NameA, Scalar(TypeCode.Int32) >> >> } }

ElemBytes27(elem) ==
    IF elem.code = TypeCode.Null THEN << TypeCode.Null >>
    ELSE ToWire(Build(elem), 0)

ElemDecode ==
    /\ cpc = "elem"
    /\ wire' = LET a == << tin.arr >> \o ElemBytes27(tin.elem)
               IN  IF tin.wrapped THEN Wrapped(a) ELSE a
    /\ \E oob \in OobCodes :
          tout' = Result(FromWire(NewContext(wire', EmptyMap, oob), 0))
    /\ cpc' = "elemDecoded"
    /\ UNCHANGED << tin, hist >>

InitElem ==
    /\ InitPvt /\ InitRun /\ InitEnv(NoEnv)
    /\ \E arr \in {TypeCode.StructA, TypeCode.UnionA},
          elem \in ElemTrees, wrapped \in BOOLEAN :
          tin = [arr |-> arr, elem |-> elem, wrapped |-> wrapped]
    /\ wire = << >>
    /\ tout = << >>
    /\ hist = << >>
    /\ cpc = "elem"

NextElem == ElemDecode /\ CodecFrame

SpecElem == InitElem /\ [][NextElem]_vars

\* Value(): the null Value
NullRoot == [descs |-> << >>, cells |-> << >>]

\* from_wire_type_value(buf, ctxt, val): a type is decoded with the
\* connection's cache into descs of its own; res is [buf, cache, val]
FromWireTypeValue_Reset(b, cache, val, oob) ==
    [buf |-> Fault(b), cache |-> cache, val |-> NullRoot]
FromWireTypeValue(b, cache, val, oob) ==
    LET Built(dc, descs) ==
            LET full == FromWireField([buf |-> dc.buf,
                                       cells |-> BuildAt(descs, 0).cells],
                                      descs, 0, 0)
            IN  [buf |-> full.buf, cache |-> dc.cache,
                 val |-> [descs |-> descs, cells |-> full.cells]]
        \* dc and descs are locals: each is computed once
        Outcome(dc) ==
            IF ~dc.buf.good
            THEN [buf |-> dc.buf, cache |-> dc.cache, val |-> val]
            ELSE IF dc.descs /= << >>
            THEN CHOOSE r \in { Built(dc, descs) :
                                  descs \in {CalcOffset(dc.descs)} } : TRUE
            ELSE [buf |-> dc.buf, cache |-> dc.cache, val |-> NullRoot]
    IN  CHOOSE r \in
            { Outcome(dc) :
                dc \in { FromWire([NewContext(<< >>, cache, oob) EXCEPT
                                      !.buf = b], 0) } } : TRUE

\* The decode calls made on a buffer that is already faulted or that
\* faults in the call: a type decode into descs that may hold nodes, with
\* a cache that may hold a binding; from_wire_valid into a Value; and
\* from_wire_type_value over a destination Value.
FaultType == Tree(TypeCode.Struct, << >>,
                  << << NameA, Scalar(TypeCode.Int32) >>,
                     << NameB, Scalar(TypeCode.Int32) >> >>)

TypeStreams ==
    { << >>, << TypeCode.Int32 >>, << TypeCode.Null >>,
      Define(1, << TypeCode.Int32 >>),
      Define(2, ToWire(Build(FaultType), 0)),
      << TypeCode.CacheRef >> \o PutU16(1),
      Wrapped(Define(2, << TypeCode.Int32 >>)),
      Wrapped(<< TypeCode.CacheRef >> \o PutU16(2)) }
    \cup BadPayloads

BitStreams ==
    { << >>, << 254 >>, << 2, 1 >>, << 1 >>, << 0 >>, << 1, 2, 7, 0, 0, 0 >>,
      << 1, 6, 7, 0, 0, 0 >> }

\* tin.faulted: the buffer is handed over with its fault flag set
BufOf(input) ==
    IF input.faulted THEN Fault(NewBuf(input.bytes)) ELSE NewBuf(input.bytes)

FaultedTypeDecode ==
    /\ cpc = "call" /\ tin.kind = "type"
    /\ \E oob \in OobCodes :
          tout' = Result(FromWire(
                     [NewContext(<< >>, tin.cache, oob) EXCEPT
                         !.buf = BufOf(tin), !.descs = tin.val.descs], 0))
    /\ cpc' = "returned"
    /\ UNCHANGED << tin, wire, hist >>

FaultedValidDecode ==
    /\ cpc = "call" /\ tin.kind = "valid"
    /\ tout' = FromWireValid(BufOf(tin), tin.val)
    /\ cpc' = "returned"
    /\ UNCHANGED << tin, wire, hist >>

FaultedTypeValue ==
    /\ cpc = "call" /\ tin.kind = "typeValue"
    /\ \E oob \in OobCodes :
          tout' = FromWireTypeValue(BufOf(tin), tin.cache, tin.val, oob)
    /\ cpc' = "returned"
    /\ UNCHANGED << tin, wire, hist >>

InitFault ==
    /\ InitPvt /\ InitRun /\ InitEnv(NoEnv)
    /\ \E faulted \in BOOLEAN,
          cache \in {EmptyMap, MapPut(EmptyMap, 1, Build(FaultType))} :
          \/ \E bytes \in TypeStreams,
                val \in {NullRoot,
                         [descs |-> Build(FaultType), cells |-> << >>]} :
                tin = [kind |-> "type", bytes |-> bytes,
                       faulted |-> faulted, cache |-> cache, val |-> val]
          \/ \E bytes \in BitStreams, val \in Values(FaultType) :
                tin = [kind |-> "valid", bytes |-> bytes,
                       faulted |-> faulted, cache |-> cache, val |-> val]
          \/ \E bytes \in { t \o << 7, 0, 0, 0 >> : t \in TypeStreams },
                val \in {NullRoot} \cup Values(FaultType) :
                tin = [kind |-> "typeValue", bytes |-> bytes,
                       faulted |-> faulted, cache |-> cache, val |-> val]
    /\ wire = << >>
    /\ tout = << >>
    /\ hist = << >>
    /\ cpc = "call"

NextFault ==
    (FaultedTypeDecode \/ FaultedValidDecode \/ FaultedTypeValue)
    /\ CodecFrame

SpecFault == InitFault /\ [][NextFault]_vars

----------------------------------------------------------------------------
(* Specifications *)

Msgs(nameSeqs) ==
    { [searchID |-> id, mustReply |-> mr, names |-> ns, lst |-> l] :
        id \in SearchIDs, mr \in BOOLEAN, ns \in nameSeqs, l \in Interfaces }

\* the Searches used where the search responder is explored: every name
\* list, received by the first listener (all listeners share one callback)
SearchMsgs == { m \in Msgs(NameSeqs) : m.lst = 1 }

\* the Searches used where the lifecycle is explored: at most one name
LifeMsgs == Msgs({ ns \in NameSeqs : \A i \in 1..Len(ns) : ns[i].id = 1 })

Lifecycle ==
    \E t \in Threads :
        \/ StartBegin(t)
        \/ StartListener(t)
        \/ \E due \in BOOLEAN : StartBeacons(t, due)
        \/ StopBegin(t)
        \/ StopListener(t)
        \/ StopIfaces(t)

Beacons ==
    \E pktlen \in BeaconPktLens : \E sent \in SUBSET BeaconDest :
        DoBeacons(pktlen, sent)

Registry ==
    \/ \E name \in SourceNames : \E order \in Orders :
          \/ \E src \in UserSources \cup {NULL} : AddSource(name, src, order)
          \/ RemoveSource(name, order)
          \/ GetSource(name, order)
    \/ ListSource

Search(msgs) ==
    \E w \in UDPWorkers :
        \/ \E msg \in msgs : OnSearchBegin(w, msg)
        \/ \E claims \in SUBSET (1..MaxNames) : \E throws \in BOOLEAN :
              OnSearchSource(w, claims, throws)
        \/ OnSearchCount(w)
        \/ OnSearchFill(w)
        \/ OnSearchHeader(w)
        \/ OnSearchReply(w)

\* The server from its construction on: caller threads start and stop it,
\* the beacon timer fires, Searches arrive.
Next ==
    /\ Lifecycle \/ Beacons \/ Search(LifeMsgs)
    /\ UNCHANGED << runVars, envVars, codecVars >>

Spec == Init /\ [][Next]_vars

\* The acceptor loop alone, with its scheduling: a caller inside start()
\* or stop() goes on to its next step, and the loop runs the callback of
\* a timer that is due.  Nothing obliges a caller to call start() or
\* stop().
NextBeacon == (Lifecycle \/ Beacons) /\ UNCHANGED << runVars, envVars, codecVars >>

CallerGoesOn(t) ==
    \/ StartListener(t)
    \/ \E due \in BOOLEAN : StartBeacons(t, due)
    \/ StopListener(t)
    \/ StopIfaces(t)

SpecBeacon ==
    /\ Init
    /\ [][NextBeacon]_vars
    /\ \A t \in Threads :
          WF_vars(CallerGoesOn(t) /\ UNCHANGED << runVars, envVars, codecVars >>)
    /\ WF_vars(Beacons /\ UNCHANGED << runVars, envVars, codecVars >>)

\* run() and interrupt(): thread t1 calls run() on the Server followed
\* here, thread t2 calls run() on the other Server of the process, and
\* while a thread is not inside run() it may call stop() on this Server;
\* any thread calls interrupt(), and signals are delivered.  No thread
\* calls start() other than through run().
RunSteps(t) ==
    \/ \E spurious \in BOOLEAN : RunClaim(t, spurious)
    \/ RunInstallINT(t)
    \/ RunInstallTERM(t)
    \/ RunStart(t)
    \/ RunWait(t)
    \/ RunStop(t)
    \/ \E spurious \in BOOLEAN : RunCleanup(t, spurious)
    \/ RunRestoreINT(t)
    \/ RunRestoreTERM(t)
    \/ CallerGoesOn(t) /\ UNCHANGED runVars

NextRun ==
    /\ \/ \E t \in Threads : RunSteps(t)
       \/ \E t \in Threads :
             rpc[t] = "idle" /\ StopBegin(t) /\ UNCHANGED runVars
       \/ \E s \in Servers : Interrupt(s)
       \/ \E sig \in {"SIGINT", "SIGTERM"} : SigDelivered(sig)
    /\ UNCHANGED << envVars, codecVars >>

\* a thread inside run(), start() or stop() goes on to its next step
SpecRun ==
    /\ Init
    /\ [][NextRun]_vars
    /\ \A t \in Threads : WF_vars(RunSteps(t) /\ UNCHANGED << envVars, codecVars >>)

\* Config::from_env, called once in a process whose environment is any
\* of Envs
Envs ==
    { [n \in ListNames \cup TextNames |->
          CASE n = "EPICS_PVAS_INTF_ADDR_LIST" -> intf
            [] n = "EPICS_PVAS_BEACON_ADDR_LIST" -> bcn
            [] n = "EPICS_PVA_ADDR_LIST" -> SetTo(<< "localhost" >>)
            [] n = "EPICS_PVAS_AUTO_BEACON_ADDR_LIST" -> auto
            [] n = "EPICS_PVA_AUTO_ADDR_LIST" -> SetTo("no")
            [] n = "EPICS_PVAS_SERVER_PORT" -> tcp
            [] n = "EPICS_PVA_SERVER_PORT" -> UnsetText
            [] n = "EPICS_PVAS_BROADCAST_PORT" -> UnsetText
            [] n = "EPICS_PVA_BROADCAST_PORT" -> udp] :
        intf \in {UnsetList} \cup { SetTo(l) : l \in AddrLists(MaxWords) },
        bcn \in {UnsetList} \cup { SetTo(l) : l \in AddrLists(1) },
        auto \in {UnsetText, SetTo("Yes"), SetTo("maybe")},
        tcp \in {UnsetText, SetTo("5099"), SetTo("70000")},
        udp \in {UnsetText, SetTo("65535"), SetTo("port")} }

InitFromEnv ==
    InitPvt /\ InitRun /\ InitCodec /\ \E e \in Envs : InitEnv(e)

NextFromEnv ==
    \/ FromEnvBegin
    \/ SplitAddrInto("interfaces", "beaconDestinations",
                     << "EPICS_PVAS_BEACON_ADDR_LIST", "EPICS_PVA_ADDR_LIST" >>)
    \/ SplitAddrInto("beaconDestinations", "scalars", << >>)
    \/ FromEnvScalars

\* from_env runs on its caller's thread, which goes on while it can
SpecFromEnv == InitFromEnv /\ [][NextFromEnv]_vars /\ WF_vars(NextFromEnv)

\* The registry from its construction on, under every call of its API.
NextRegistry == Registry /\ UNCHANGED << runVars, envVars, codecVars >>

SpecRegistry == Init /\ [][NextRegistry]_vars

\* The registries the search responder is explored with: the constructed
\* one and those addSource makes of it with one Source before and one
\* after the "server" entry.
SearchRegistries ==
    { [k \in {ServerKey} \cup extra |->
          IF k = ServerKey THEN ServerSource ELSE "srcA"] :
        extra \in SUBSET { <<-1, "pv">>, <<0, "pv">> } }

\* A server that start() has brought to Running, with a registry that
\* addSource has filled.
InitSearch ==
    /\ state = "Running"
    /\ interfaces = [i \in Interfaces |-> TRUE]
    /\ listeners = [i \in Interfaces |-> TRUE]
    /\ beaconTimer = "immediate"
    /\ tpc = [t \in Threads |-> "idle"]
    /\ tidx = [t \in Threads |-> 0]
    /\ sources \in SearchRegistries
    /\ apiCall = [op |-> "none", err |-> "none", ret |-> NULL,
                  names |-> << >>]
    /\ wpc = [w \in UDPWorkers |-> "idle"]
    /\ wmsg = [w \in UDPWorkers |-> NoMsg]
    /\ wit = [w \in UDPWorkers |-> 0]
    /\ wnreply = [w \in UDPWorkers |-> 0]
    /\ wpktlen = [w \in UDPWorkers |-> 0]
    /\ wclaimed = [w \in UDPWorkers |-> {}]
    /\ wthrown = [w \in UDPWorkers |-> {}]
    /\ wreply = [w \in UDPWorkers |-> NoReply]
    /\ searchOp = << >>
    /\ searchReply = [hdr |-> ZeroHeader, body |-> ZeroSearchBody,
                      ids |-> << >>]
    /\ beaconMsg = [hdr |-> ZeroHeader, body |-> ZeroBeaconBody]
    /\ lastBeacon = NoBeacon
    /\ InitCodec
    /\ InitRun
    /\ InitEnv(NoEnv)

NextSearch == Search(SearchMsgs) /\ UNCHANGED << runVars, envVars, codecVars >>

SpecSearch == InitSearch /\ [][NextSearch]_vars

\* Two UDPManager workers, each running onSearch for the Searches that
\* its listener receives, on a Running server: the steps of the two calls
\* interleave.  Both calls use the members searchOp and searchReply of
\* the one Pvt.  Every Search carries one name, so that the two calls
\* agree on the size of searchOp._names; the Searches of the first
\* listener ask for "xxx" (id 1), those of the second for "yyy" (id 2).
TwoWorkers == {1, 2}

TwoMsgs ==
    { m \in Msgs(NameSeqs) :
        /\ Len(m.names) = 1
        /\ m.lst \in TwoWorkers
        /\ m.names[1].id = m.lst }

InitTwoSearch ==
    /\ state = "Running"
    /\ interfaces = [i \in Interfaces |-> TRUE]
    /\ listeners = [i \in Interfaces |-> TRUE]
    /\ beaconTimer = "immediate"
    /\ tpc = [t \in Threads |-> "idle"]
    /\ tidx = [t \in Threads |-> 0]
    /\ sources \in SearchRegistries
    /\ apiCall = [op |-> "none", err |-> "none", ret |-> NULL,
                  names |-> << >>]
    /\ wpc = [w \in TwoWorkers |-> "idle"]
    /\ wmsg = [w \in TwoWorkers |-> NoMsg]
    /\ wit = [w \in TwoWorkers |-> 0]
    /\ wnreply = [w \in TwoWorkers |-> 0]
    /\ wpktlen = [w \in TwoWorkers |-> 0]
    /\ wclaimed = [w \in TwoWorkers |-> {}]
    /\ wthrown = [w \in TwoWorkers |-> {}]
    /\ wreply = [w \in TwoWorkers |-> NoReply]
    /\ searchOp = << >>
    /\ searchReply = [hdr |-> ZeroHeader, body |-> ZeroSearchBody,
                      ids |-> << >>]
    /\ beaconMsg = [hdr |-> ZeroHeader, body |-> ZeroBeaconBody]
    /\ lastBeacon = NoBeacon
    /\ InitRun
    /\ InitEnv(NoEnv)
    /\ InitCodec

NextTwoSearch ==
    /\ \E w \in TwoWorkers :
          \/ \E msg \in TwoMsgs : msg.lst = w /\ OnSearchBegin(w, msg)
          \/ \E claims \in SUBSET (1..MaxNames) : \E throws \in BOOLEAN :
                OnSearchSource(w, claims, throws)
          \/ OnSearchCount(w)
          \/ OnSearchFill(w)
          \/ OnSearchHeader(w)
          \/ OnSearchReply(w)
    /\ UNCHANGED << runVars, envVars, codecVars >>

SpecTwoSearch == InitTwoSearch /\ [][NextTwoSearch]_vars

\* One start() call, made by one thread, and one stop() call, made by
\* the other thread, on a constructed server, in every interleaving of
\* their steps, while the beacon timer may fire.  hist records who calls
\* start(), which calls were invoked and have returned, and whether
\* start() began after stop() was invoked.
NoCalls(t) ==
    [starter |-> t, started |-> FALSE, startDone |-> FALSE,
     afterStop |-> FALSE, stopped |-> FALSE, stopDone |-> FALSE]

Stopper == CHOOSE t \in Threads : t /= hist.starter

CallStart ==
    /\ ~hist.started
    /\ StartBegin(hist.starter)
    /\ hist' = [hist EXCEPT !.started = TRUE,
                            !.startDone = (tpc'[hist.starter] = "idle"),
                            !.afterStop = hist.stopped]

StartGoesOn ==
    /\ hist.started /\ ~hist.startDone
    /\ \/ StartListener(hist.starter)
       \/ \E due \in BOOLEAN : StartBeacons(hist.starter, due)
    /\ hist' = [hist EXCEPT !.startDone = (tpc'[hist.starter] = "idle")]

CallStop ==
    /\ ~hist.stopped
    /\ StopBegin(Stopper)
    /\ hist' = [hist EXCEPT !.stopped = TRUE,
                            !.stopDone = (tpc'[Stopper] = "idle")]

StopGoesOn ==
    /\ hist.stopped /\ ~hist.stopDone
    /\ StopListener(Stopper) \/ StopIfaces(Stopper)
    /\ hist' = [hist EXCEPT !.stopDone = (tpc'[Stopper] = "idle")]

InitStartStop ==
    /\ InitPvt /\ InitRun /\ InitEnv(NoEnv)
    /\ tin = << >>
    /\ wire = << >>
    /\ tout = << >>
    /\ \E t \in Threads : hist = NoCalls(t)
    /\ cpc = "idle"

NextStartStop ==
    /\ \/ CallStart
       \/ StartGoesOn
       \/ CallStop
       \/ StopGoesOn
       \/ Beacons /\ UNCHANGED hist
    /\ UNCHANGED << runVars, envVars, tin, wire, tout, cpc >>

SpecStartStop == InitStartStop /\ [][NextStartStop]_vars

----------------------------------------------------------------------------
(* Properties of the lifecycle, checked under Spec *)

AllEnabled(f) == \A i \in Interfaces : f[i]
NoneEnabled(f) == \A i \in Interfaces : ~f[i]

InStart(t) == tpc[t] \in {"start_listeners", "start_beacons"}
InStop(t) == tpc[t] \in {"stop_listeners", "stop_ifaces"}

\* C1: start() called in Stopped sets Starting, and has set Running when
\* it returns; whenever the state is Running every acceptor is enabled,
\* every search listener started and the beacon timer armed; start()
\* called in another state changes neither the state nor an acceptor, a
\* listener or the timer, and returns at once.
C1_Start ==
    [][ /\ \A t \in Threads :
            /\ (StartBegin(t) /\ state = "Stopped")
                  => (state' = "Starting" /\ InStart(t)')
            /\ (StartBegin(t) /\ state /= "Stopped")
                  => (UNCHANGED lifeVars /\ tpc'[t] = "idle")
            /\ (InStart(t) /\ tpc'[t] = "idle") => state' = "Running"
        /\ (state /= "Running" /\ state' = "Running") => state = "Starting"
        /\ state' = "Running"
              => /\ AllEnabled(interfaces')
                 /\ AllEnabled(listeners')
                 /\ beaconTimer' /= "off"
      ]_vars

\* C2: stop() called in Running sets Stopping, and has set Stopped when it
\* returns; whenever the state is Stopped the beacon timer is cancelled,
\* every search listener halted and every acceptor disabled; stop() called
\* in another state changes neither the state nor an acceptor, a listener
\* or the timer, and returns at once.
C2_Stop ==
    [][ /\ \A t \in Threads :
            /\ (StopBegin(t) /\ state = "Running")
                  => (state' = "Stopping" /\ InStop(t)')
            /\ (StopBegin(t) /\ state /= "Running")
                  => (UNCHANGED lifeVars /\ tpc'[t] = "idle")
            /\ (InStop(t) /\ tpc'[t] = "idle") => state' = "Stopped"
        /\ (state /= "Stopped" /\ state' = "Stopped") => state = "Stopping"
        /\ state' = "Stopped"
              => /\ NoneEnabled(interfaces')
                 /\ NoneEnabled(listeners')
                 /\ beaconTimer' = "off"
      ]_vars

\* stop() has returned and left a stopped server that had sent a beacon
C2_Witness ==
    /\ state = "Stopped"
    /\ \A t \in Threads : tpc[t] = "idle"
    /\ lastBeacon.tx
    /\ beaconTimer = "off"

\* the transitions of state_t the lifecycle allows
StateEdges == { <<"Stopped", "Starting">>, <<"Starting", "Running">>,
                <<"Running", "Stopping">>, <<"Stopping", "Stopped">> }

\* C3: whichever threads call start() and stop(), state changes along
\* Stopped -> Starting -> Running -> Stopping -> Stopped only, and at most
\* one call is between its first and its last acceptor-loop functor.
C3_Transitions ==
    [][ /\ state' /= state => <<state, state'>> \in StateEdges
        /\ Cardinality({ t \in Threads : tpc'[t] /= "idle" }) <= 1
      ]_vars

\* one thread is inside stop() while the other is free to call
C3_Witness ==
    /\ state = "Stopping"
    /\ tpc["t2"] = "stop_listeners"
    /\ tpc["t1"] = "idle"

C10_BuffersNotShared ==
    [][ /\ Beacons => UNCHANGED << searchReply, searchOp >>
        /\ Search(LifeMsgs) => UNCHANGED beaconMsg
      ]_vars

\* C11: a beacon that is transmitted has the length of the composed
\* message; its first 8 bytes are the header {CMD_BEACON, Server, length
\* - 8}, the bytes after it the GUID, the address and port, "tcp" and
\* the status byte 0xFF.
C11_BeaconDatagram ==
    lastBeacon.tx =>
        /\ lastBeacon.len = BeaconLen
        /\ lastBeacon.hdr = Header("CMD_BEACON", lastBeacon.len - HeaderLen)
        /\ lastBeacon.body = BeaconBody

\* C12: a server that is Running comes to transmit a beacon, unless
\* stop() cancels the timer first; a transmission leaves the timer
\* pending for the next one, whatever sendto() returned.
C12_BeaconCadence ==
    /\ (state = "Running")
          ~> (beaconTimer = "interval" \/ state /= "Running")
    /\ [][Beacons => beaconTimer' = "interval"]_vars

----------------------------------------------------------------------------
(* Properties of Config::from_env, checked under SpecFromEnv *)

\* the words of list that aToIPAddr accepts, as dotted addresses, in order
RECURSIVE ValidOf(_)
ValidOf(list) ==
    IF list = << >> THEN << >>
    ELSE IF IsAddr(Head(list))
         THEN << DottedIP(Head(list)) >> \o ValidOf(Tail(list))
         ELSE ValidOf(Tail(list))

\* C15: from_env returns, whatever the environment holds; the Config it
\* returns has the valid addresses of each list in order, and the
\* default for every port or YES/NO value that is not valid.
C15_FromEnvTerminates ==
    /\ (epc /= "idle") ~> (epc = "done")
    /\ [](epc = "done" =>
            /\ eret.interfaces =
                   ValidOf(env["EPICS_PVAS_INTF_ADDR_LIST"].val)
            /\ eret.beaconDestinations =
                   ValidOf(PickEnv(env, << "EPICS_PVAS_BEACON_ADDR_LIST",
                                          "EPICS_PVA_ADDR_LIST" >>,
                                   UnsetList).val)
            /\ env["EPICS_PVAS_AUTO_BEACON_ADDR_LIST"].val = "maybe"
                   => eret.auto_beacon = "default"
            /\ env["EPICS_PVAS_SERVER_PORT"].val = "70000"
                   => eret.tcp_port = -1
            /\ env["EPICS_PVA_BROADCAST_PORT"].val = "port"
                   => eret.udp_port = 5076)

----------------------------------------------------------------------------
(* Properties of run() and of the signal slot, checked under SpecRun *)

InRun(t) == rpc[t] /= "idle"
RunReturns(t) == InRun(t) /\ rpc'[t] = "idle"
PastWait(t) ==
    rpc[t] \in {"stop", "cleanup", "restore_int", "restore_term"}

\* C13 as stated: a run() that has passed done.wait() was signalled; a
\* run() whose done event is signalled returns; the state is Stopped
\* when run() returns.
C13_RunInterrupt ==
    /\ [](\A t \in Threads : PastWait(t) => signalled[RunServer(t)])
    /\ \A t \in Threads : (InRun(t) /\ done[RunServer(t)]) ~> ~InRun(t)
    /\ [][\A t \in Threads :
            (RunReturns(t) /\ RunServer(t) = "this") => state' = "Stopped"
         ]_vars

\* C13 as amended: as above, but when run() returns the state is Stopped,
\* or it is Stopping and the stop() call of another thread is in progress.
C13_RunInterruptOrStopping ==
    /\ [](\A t \in Threads : PastWait(t) => signalled[RunServer(t)])
    /\ \A t \in Threads : (InRun(t) /\ done[RunServer(t)]) ~> ~InRun(t)
    /\ [][\A t \in Threads :
            (RunReturns(t) /\ RunServer(t) = "this") =>
                \/ state' = "Stopped"
                \/ /\ state' = "Stopping"
                   /\ \E u \in Threads \ {t} : InStop(u)'
         ]_vars

\* run() has started the server, was interrupted and has returned after
\* stopping it
C13_Witness ==
    /\ ~InRun("t1") /\ tpc["t1"] = "idle"
    /\ signalled["this"] /\ ~done["this"]
    /\ state = "Stopped"
    /\ \A t \in Threads : tpc[t] = "idle"

\* a run() that claimed the slot and has not yet given it back
Owns(t) ==
    \/ rpc[t] \in {"install_int", "install_term"}
    \/ cleanup[t] /\ rpc[t] \in {"start", "wait", "stop", "cleanup"}

\* C14: at most one run() owns the slot; a run() that finds the slot
\* free claims it and installs sig_handle for both signals; when a run()
\* that claimed the slot returns, the slot does not name its Server any
\* more and the handlers are those it found, so that with no run() in
\* progress the slot is free and the handlers are those the process
\* started with; a run() that did not claim the slot changes neither
\* the slot nor a handler.
C14_SignalSlot ==
    /\ [](Cardinality({ t \in Threads : Owns(t) }) <= 1)
    /\ []((\A t \in Threads : ~InRun(t)) =>
            (sig_target = NULL /\ sigINT = SIG_DFL /\ sigTERM = SIG_DFL))
    /\ [][\A t \in Threads :
            /\ (~InRun(t) /\ InRun(t)' /\ sig_target = NULL)
                  => sig_target' = RunServer(t)
            /\ (rpc[t] = "install_term" /\ rpc'[t] = "start")
                  => (sigINT' = SigHandle /\ sigTERM' = SigHandle)
            /\ (RunReturns(t) /\ cleanup[t])
                  => /\ sig_target' /= RunServer(t)
                     /\ sigINT' = prevINT[t] /\ sigTERM' = prevTERM[t]
            /\ (InRun(t) /\ ~Owns(t) /\ rpc[t] \notin
                     {"restore_int", "restore_term"} /\ rpc'[t] /= rpc[t])
                  => UNCHANGED sigVars
         ]_vars

----------------------------------------------------------------------------
(* Properties of the search responder, checked under SpecSearch *)

Done(w) == wpc[w] = "done"

\* the ids of the names with an index in S, in the order of names
RECURSIVE IdsOf(_, _, _)
IdsOf(names, S, i) ==
    IF i > Len(names) THEN << >>
    ELSE (IF i \in S THEN << names[i].id >> ELSE << >>)
         \o IdsOf(names, S, i + 1)

\* C5: a handled Search is answered by one reply if a name was claimed or
\* mustReply is set, and by none otherwise; a reply without a claimed name
\* carries found 0, nreply 0 and no id.
C5_ReplyDecision ==
    \A w \in UDPWorkers :
        /\ ~Done(w) => ~wreply[w].sent
        /\ Done(w) =>
             /\ wreply[w].sent <=> (wclaimed[w] /= {} \/ wmsg[w].mustReply)
             /\ (wreply[w].sent /\ wclaimed[w] = {}) =>
                   /\ wreply[w].dgram.body.found = 0
                   /\ wreply[w].dgram.body.nreply = 0
                   /\ wreply[w].dgram.ids = << >>

\* a Search nobody claimed was answered because it asked for a reply,
\* through a buffer that held the ids of an earlier reply
C5_Witness ==
    \E w \in UDPWorkers :
        /\ Done(w) /\ wreply[w].sent
        /\ wclaimed[w] = {} /\ wmsg[w].mustReply
        /\ Len(wmsg[w].names) > 0
        /\ Len(searchReply.ids) > 0

\* C6: in a reply nreply is the number of names claimed during this
\* Search, and the ids are the ids of exactly these names in the order of
\* the Search.
C6_ReplyContent ==
    \A w \in UDPWorkers :
        (Done(w) /\ wreply[w].sent) =>
            /\ wreply[w].dgram.body.nreply = Cardinality(wclaimed[w])
            /\ Len(wreply[w].dgram.ids) = wreply[w].dgram.body.nreply
            /\ wreply[w].dgram.ids = IdsOf(wmsg[w].names, wclaimed[w], 1)
            /\ wreply[w].dgram.body.found =
                  (IF wclaimed[w] /= {} THEN 1 ELSE 0)
            /\ wreply[w].dgram.body.searchID = wmsg[w].searchID

\* the second of two names was claimed, and the buffer still holds more
\* ids than this reply has
C6_Witness ==
    \E w \in UDPWorkers :
        /\ Done(w) /\ wreply[w].sent
        /\ Len(wmsg[w].names) = 2 /\ wclaimed[w] = {2}
        /\ wreply[w].dgram.ids = << wmsg[w].names[2].id >>
        /\ Len(searchReply.ids) > 1

----------------------------------------------------------------------------
(* Properties of the registry, checked under SpecRegistry *)

\* C8: addSource with a null Source or a registered key raises and leaves
\* the registry as it was; otherwise it adds the one entry and changes no
\* other; no entry is ever bound to a null Source.
C8_AddSource ==
    [][ /\ \A name \in SourceNames : \A order \in Orders :
           \A src \in UserSources \cup {NULL} :
              AddSource(name, src, order) =>
                 LET key == <<order, name>>
                 IN  IF src = NULL \/ key \in DOMAIN sources
                     THEN /\ sources' = sources
                          /\ apiCall'.err /= "none"
                     ELSE /\ DOMAIN sources' = DOMAIN sources \cup {key}
                          /\ sources'[key] = src
                          /\ \A k \in DOMAIN sources :
                                sources'[k] = sources[k]
                          /\ apiCall'.err = "none"
        /\ \A k \in DOMAIN sources' : sources'[k] /= NULL
      ]_vars

\* a duplicate was refused while the registry held several entries
C8_Witness ==
    /\ apiCall.op = "addSource"
    /\ apiCall.err = "runtime_error"
    /\ Cardinality(DOMAIN sources) >= 3
    /\ \A k \in DOMAIN sources : sources[k] /= NULL

\* C9 as stated: the entry (-1, "server") is registered at all times.
C9_ServerAlwaysRegistered == ServerKey \in DOMAIN sources

\* C9 as amended: the entry (-1, "server") is registered by the
\* constructor, and every call other than removeSource("server", -1)
\* leaves it registered and bound to the same Source.
C9_ServerKeptUnlessRemoved ==
    /\ ServerKey \in DOMAIN sources
    /\ [][ (ServerKey \in DOMAIN sources /\ ~RemoveSource("server", -1))
              => /\ ServerKey \in DOMAIN sources'
                 /\ sources'[ServerKey] = sources[ServerKey]
         ]_vars

\* another entry was removed and the "server" entry is still there
C9_Witness ==
    /\ apiCall.op = "removeSource"
    /\ apiCall.ret \in UserSources
    /\ ServerKey \in DOMAIN sources
    /\ sources[ServerKey] = ServerSource


\* two FieldDesc arrays describe the same type
SameType(a, b) ==
    /\ Len(a) = Len(b)
    /\ \A i \in 1..Len(a) :
          /\ a[i].code = b[i].code
          /\ a[i].id = b[i].id
          /\ a[i].miter = b[i].miter
          /\ a[i].mlookup = b[i].mlookup

\* C16: for every well-formed type T, decoding the bytes that the type
\* encoder wrote for T, with an empty cache, succeeds, consumes exactly
\* those bytes, and yields a FieldDesc array with T's codes, ids, member
\* names and relative indices in T's order and T's flattened mlookup.
C16_TypeRoundTrip ==
    cpc = "decoded" =>
        /\ tout.buf.good
        /\ tout.buf.pos = Len(wire) + 1
        /\ SameType(tout.descs, Build(tin))

\* C17: for every Value v whose cells hold values representable in their
\* field's code, from_wire_full applied to the bytes to_wire_full wrote
\* for v leaves every storage cell equal to the cell of v, with no fault.
C17_FullRoundTrip ==
    cpc = "fullDecoded" =>
        /\ tout.buf.good
        /\ tout.cells = tin.cells

\* C18: for every root Value v and valid bitset, from_wire_valid applied
\* to the bytes of to_wire_valid(v) into a Value w of the same type makes
\* w equal to v on every cell whose valid bit is set and leaves every
\* cell whose bit is unset with the content w had before.
C18_ValidRoundTrip ==
    cpc = "validDecoded" =>
        /\ tout.buf.good
        /\ \A i \in 1..Len(tout.cells) :
              tout.cells[i] = IF (i - 1) \in tin.valid
                              THEN tin.v.cells[i] ELSE tin.w.cells[i]

\* C19: across the decode calls on one connection, the cache binds each
\* key to the subtree of the most recent successful Cache-Define of that
\* key and to nothing else (a later Define of the key overwrites, Defines
\* of other keys and failed Defines leave it as it was); a Cache-Ref to a
\* bound key appends a copy of that subtree; a Cache-Ref to a key never
\* successfully defined faults and appends nothing; a Cache-Define whose
\* payload is Null or fails to decode faults.
C19_CacheAcrossCalls ==
    LET c == hist.call
        bound == c.key \in DOMAIN hist.before
    IN  /\ tout.cache = hist.bound
        /\ c.kind \in {"define", "defineIn"} =>
              tout.buf.good /\ tout.descs /= << >>
        /\ c.kind \in {"defineNull", "defineBad", "defineInBad"} =>
              /\ ~tout.buf.good
              /\ c.key \in DOMAIN tout.cache <=> bound
              /\ bound => tout.cache[c.key] = hist.before[c.key]
        /\ c.kind = "ref" =>
              IF bound
              THEN tout.buf.good /\ tout.descs = hist.before[c.key]
              ELSE ~tout.buf.good /\ tout.descs = << >>
        /\ c.kind = "refIn" =>
              IF bound
              THEN /\ tout.buf.good
                   /\ SubSeq(tout.descs, 3, Len(tout.descs))
                         = hist.before[c.key]
              ELSE ~tout.buf.good

\* the last call was a Cache-Ref to a bound key and appended that key's
\* subtree of several nodes, while every key is bound and some other key
\* is bound to a different subtree
C19_Witness ==
    /\ hist.call.kind = "ref"
    /\ tout.buf.good
    /\ DOMAIN tout.cache = CacheKeys
    /\ tout.descs = tout.cache[hist.call.key]
    /\ Len(tout.descs) > 1
    /\ \E k \in CacheKeys : tout.cache[k] /= tout.descs

\* C20: the recursion of the type decoder is bounded: a type stream whose
\* nesting reaches depth 21 faults, with no code read deeper than depth
\* 20, and a well-formed stream whose depth is at most 20 is not faulted.
C20_DepthBound ==
    cpc = "streamDecoded" =>
        /\ tout.buf.good <=> tin.depth <= MaxTypeDepth
        /\ Len(tout.descs) <= MaxTypeDepth + 1

\* a stream of depth 21 was decoded and faulted after the nodes of its
\* levels 0..20 that make one
C20_Witness ==
    /\ cpc = "streamDecoded"
    /\ tin.depth = MaxTypeDepth + 1
    /\ tin.pattern = << "S" >>
    /\ ~tout.buf.good
    /\ Len(tout.descs) = MaxTypeDepth + 1

\* the selector of element e names a member, or is the null selector, or
\* the element has none
SelectorOk(e) == e.sel \in {-2, -1, 0, 1}

\* C21: decoding a StructA or UnionA value, a presence byte that is
\* neither 0 nor 1 sets the buffer fault; with presence bytes 0 and 1
\* only (and valid selectors) there is no fault, presence byte 0 leaves
\* the element null and presence byte 1 decodes it.
C21_PresenceByte ==
    cpc = "arrayDecoded" =>
        LET es == tin.elems
            arr == tout.cells[1].val
        IN  /\ (\E i \in 1..Len(es) : es[i].present \notin {0, 1})
                  => ~tout.buf.good
            /\ (\A i \in 1..Len(es) :
                   es[i].present \in {0, 1} /\ SelectorOk(es[i]))
                  => /\ tout.buf.good
                     /\ arr.n = Len(es)
                     /\ \A i \in 1..Len(es) :
                           /\ arr.elems[i].null
                                 <=> (es[i].present = 0 \/ es[i].sel = -1)
                           /\ ~arr.elems[i].null =>
                                 WireBytes(
                                    arr.elems[i].cells[
                                        Len(arr.elems[i].cells)].val,
                                    Len(es[i].bytes)) = es[i].bytes

\* the selector a stream starts with: -1 for the null Size, -2 if the
\* stream is empty
StreamSelect(bytes) ==
    IF bytes = << >> THEN -2
    ELSE IF bytes[1] = 255 THEN -1 ELSE bytes[1]

\* C22: encoding a non-null Union writes as selector the index of the
\* first miter entry whose FieldDesc is the sub-Value's, then the
\* sub-Value's full encoding; a null Union writes the null Size; a
\* sub-Value that is no member raises the logic error with no byte
\* written.  Decoding a selector s < miter.size() builds the sub-Value
\* with member s's FieldDesc, and encoding it again writes selector s;
\* the null selector leaves the Union null; any other selector faults.
C22_UnionSelector ==
    LET miter == UnionType[1].miter
        s == StreamSelect(tin.bytes)
        fld == tout.cells[1].val
    IN  /\ cpc = "unionEncoded" =>
              IF tin.sub.null
              THEN wire = << 255 >> /\ hist.ok /\ ~hist.thrown
              ELSE IF \E i \in 1..Len(miter) : miter[i][2] = tin.sub.desc
              THEN /\ hist.ok /\ ~hist.thrown
                   /\ miter[wire[1] + 1][2] = tin.sub.desc
                   /\ \A i \in 1..wire[1] : miter[i][2] /= tin.sub.desc
                   /\ Tail(wire) = WireBytes(tin.sub.cells[1].val,
                                      Width(UnionType[tin.sub.desc + 1].code))
              ELSE hist.thrown /\ wire = << >>
        /\ cpc = "unionDecoded" =>
              /\ (s >= 0 /\ s < Len(miter))
                    => ~fld.null /\ fld.desc = miter[s + 1][2]
              /\ (s = -1 => fld.null /\ tout.buf.good)
              /\ (s >= Len(miter) => ~tout.buf.good /\ fld.null)
        /\ (cpc = "unionReencoded" /\ s >= 0 /\ s < Len(miter))
              => ~hist.thrown /\ wire /= << >> /\ wire[1] = s

\* selector 1 and the nested Union's member were decoded into the
\* sub-Value of member b, and encoding the root again gave the same bytes
C22_Witness ==
    /\ cpc = "unionReencoded"
    /\ tin.bytes = << 1, 0, 44, 1 >>
    /\ tout.buf.good
    /\ tout.cells[1].val.desc = 2
    /\ wire = << 1, 0, 44, 1 >>

\* the dotted paths below the node at position p that follow only nested
\* Structs, each with the position of the node it names
RECURSIVE PathsOf(_, _)
PathsOf(descs, p) ==
    UNION { LET name == descs[p + 1].miter[i][1]
                c == p + descs[p + 1].miter[i][2]
            IN  { << << name >>, c >> }
                \cup (IF descs[c + 1].code = TypeCode.Struct
                      THEN { << << name >> \o q[1], q[2] >> :
                                q \in PathsOf(descs, c) }
                      ELSE {}) :
            i \in 1..Len(descs[p + 1].miter) }

\* C23: after a type decode, for every Struct node S at position p of
\* descs, S.mlookup holds every dotted path that follows only nested
\* Structs, and the value r of each entry is the relative index with
\* descs[p + r] the node the path names.
C23_MlookupCorrect ==
    (cpc = "decoded" /\ tout.buf.good) =>
        \A p \in 0..(Len(tout.descs) - 1) :
           tout.descs[p + 1].code = TypeCode.Struct =>
              LET paths == PathsOf(tout.descs, p)
                  lookup == tout.descs[p + 1].mlookup
              IN  /\ DOMAIN lookup = { q[1] : q \in paths }
                  /\ \A q \in paths : p + lookup[q[1]] = q[2]

\* In the node sequence nodes, the node at position p spans num_index
\* nodes that lie within the sequence, its miter entries point inside
\* that span, and its children's spans follow one another in miter order
\* from p + 1 and fill the span.
RangeOk(nodes, p) ==
    LET d == nodes[p + 1]
        n == d.num_index
        k == Len(d.miter)
        span(r) == nodes[p + r + 1].num_index
    IN  /\ n >= 1 /\ p + n <= Len(nodes)
        /\ \A i \in 1..k : 1 <= d.miter[i][2] /\ d.miter[i][2] < n
        /\ CASE d.code \in {TypeCode.Struct, TypeCode.Union} ->
                  IF k = 0 THEN n = 1
                  ELSE /\ d.miter[1][2] = 1
                       /\ \A i \in 1..(k - 1) :
                             d.miter[i + 1][2]
                                = d.miter[i][2] + span(d.miter[i][2])
                       /\ d.miter[k][2] + span(d.miter[k][2]) = n
             [] d.code \in {TypeCode.StructA, TypeCode.UnionA} ->
                  k = 0 /\ (n = 1 \/ n = 1 + span(1))
             [] OTHER -> k = 0 /\ n = 1

WellRanged(nodes) == \A p \in 0..(Len(nodes) - 1) : RangeOk(nodes, p)

\* C24: after a successful type decode, every node of descs has as
\* num_index the size of its subtree, its descendants and miter entries
\* lie in [p + 1, p + num_index), and its children's subtrees are
\* disjoint and in miter order; the same holds of every subtree copied
\* into the cache and of a subtree spliced by a Cache-Ref at another
\* position than that of its definition.
C24_SubtreeRange ==
    /\ tout.buf.good =>
          /\ WellRanged(tout.descs)
          /\ tout.descs /= << >> => tout.descs[1].num_index = Len(tout.descs)
    /\ \A key \in DOMAIN tout.cache :
          /\ WellRanged(tout.cache[key])
          /\ tout.cache[key][1].num_index = Len(tout.cache[key])

\* a subtree of several nodes defined at position 0 was spliced by a
\* Cache-Ref as the second member of a Struct, at position 2
C24_Witness ==
    /\ hist.call.kind = "refIn"
    /\ tout.buf.good
    /\ Len(tout.descs) > 3
    /\ tout.descs[1].miter[2][2] = 2
    /\ SubSeq(tout.descs, 3, Len(tout.descs)) = tout.cache[hist.call.key]
    /\ tout.descs[3].num_index > 1

\* the bytes of the leaf cells of v whose bits are set, from bit b on
RECURSIVE LeafBytes(_, _, _)
LeafBytes(v, valid, b) ==
    IF b >= Len(v.cells) THEN << >>
    ELSE (IF b \in valid /\ v.descs[b + 1].code /= TypeCode.Struct
          THEN ToWireField(v.descs, b, v.cells, b).bytes
          ELSE << >>)
         \o LeafBytes(v, valid, b + 1)

\* C25: in valid mode, after the bitset, the storage cell b is encoded
\* and decoded once for each set bit b in [offset, next_offset), in
\* ascending order, and nothing else: the set bit of a Struct parent
\* contributes no bytes, so a leaf whose bit and whose parent's bit are
\* both set is encoded exactly once.
C25_ValidPerBit ==
    /\ cpc \in {"validEncoded", "validDecoded"} =>
          wire = BitsToWire(tin.valid, Len(tin.v.cells))
                 \o LeafBytes(tin.v, tin.valid, 0)
    /\ cpc = "validDecoded" =>
          /\ tout.buf.good
          /\ tout.buf.pos = Len(wire) + 1
          /\ \A b \in 0..(Len(tout.cells) - 1) :
                b \notin tin.valid => tout.cells[b + 1] = tin.w.cells[b + 1]

\* C26: for a field whose code is a scalar-array code and whose storage
\* category is Array, encoding writes Size n and the n elements with no
\* assertion failure and no fault, and decoding well-formed bytes sets
\* no fault and leaves the cell holding exactly the n decoded elements.
C26_ScalarArrays ==
    /\ cpc = "scalarAEncoded" =>
          /\ hist.ok /\ ~hist.thrown
          /\ wire = ScalarAWire(tin.code, tin.elems)
    /\ cpc = "scalarADecoded" =>
          /\ tout.buf.good
          /\ tout.cells[1].val = [n |-> Len(tin.elems), elems |-> tin.elems]

\* C27: after decoding a StructA (UnionA) node the type decoder faults
\* unless one element description was appended and its code is Struct
\* (Union); in particular it faults when the element description is
\* Null, which appends nothing and leaves no node after the array's to
\* read.
C27_ElementCheck ==
    cpc = "elemDecoded" =>
        (tout.buf.good <=> tin.elem.code = ScalarOf(tin.arr))

\* C28: the fault of a buffer is sticky and frame-preserving: a call on
\* a faulted buffer leaves it faulted; a type decode call on a faulted
\* buffer appends no node to descs and changes no cache binding;
\* from_wire_valid whose bitset read faulted modifies no storage cell;
\* from_wire_type_value whose type decode faulted modifies no storage
\* cell and does not replace the destination Value.
C28_FaultSticky ==
    cpc = "returned" =>
        /\ tin.faulted => ~tout.buf.good
        /\ (tin.kind = "type" /\ tin.faulted) =>
              /\ tout.descs = tin.val.descs
              /\ tout.cache = tin.cache
        /\ (tin.kind = "valid"
            /\ ~BitsFromWire(BufOf(tin), Len(tin.val.cells)).buf.good) =>
              /\ ~tout.buf.good
              /\ tout.cells = tin.val.cells
        /\ (tin.kind = "typeValue" /\ ~tout.buf.good
            /\ \A oob \in OobCodes :
                  ~FromWire([NewContext(<< >>, tin.cache, oob) EXCEPT
                                !.buf = BufOf(tin)], 0).buf.good) =>
              tout.val = tin.val

\* from_wire_type_value returned over a destination Value holding
\* non-zero cells after its type decode faulted, on a buffer that was
\* good when handed over
C28_Witness ==
    /\ cpc = "returned"
    /\ tin.kind = "typeValue"
    /\ ~tin.faulted
    /\ ~tout.buf.good
    /\ tin.val /= NullRoot
    /\ tin.val.cells[2].val = 99
    /\ tout.val = tin.val

\* C29: for every interleaving of one start() call and one stop() call,
\* if the start() call did not begin after the stop() call was invoked,
\* then once both calls have returned the server state is Stopped.
C29_StopAfterStart ==
    (hist.startDone /\ hist.stopDone /\ ~hist.afterStop)
        => state = "Stopped"

\* C30: when two Searches are processed by onSearch at the same time on
\* different UDP workers, each reply lists only ids of its own Search,
\* for exactly the names claimed during that Search, nreply is the number
\* of ids written, and the reply carries its own searchID.
C30_SearchesIsolated ==
    \A w \in TwoWorkers :
        (wpc[w] = "done" /\ wreply[w].sent) =>
            /\ wreply[w].dgram.ids = IdsOf(wmsg[w].names, wclaimed[w], 1)
            /\ wreply[w].dgram.body.nreply = Len(wreply[w].dgram.ids)
            /\ wreply[w].dgram.body.searchID = wmsg[w].searchID

====
